---------------------------- MODULE Spec2Model ----------------------------
(***************************************************************************)
(* A model of SvnWorkingTree (workingtree.py): a Bazaar working tree kept  *)
(* in a Subversion working copy.  File identities, revision ids and merge  *)
(* ancestry are stored in properties of the working copy root.  The        *)
(* plugin's lazy version check and optimiser registration (__init__.py)    *)
(* are modelled beside it.                                                 *)
(*                                                                         *)
(* Text is modelled as a sequence of tokens.  A token is a separator       *)
(* character (TAB, NL, "/") or an atomic piece of text that contains no    *)
(* separator, so Python's split()/splitlines()/join() act on tokens as     *)
(* they act on characters.                                                 *)
(***************************************************************************)
EXTENDS Integers, Sequences, FiniteSets, TLC

VARIABLES
    branch_path,   \* branch.get_branch_path(): path of the branch in the repository
    entries,       \* the working copy's entries, by working-copy relative path
    wcprops,       \* properties of the working copy root (adm.prop_get/prop_set)
    repo,          \* the repository: revision n is repo[n + 1]
    base_revnum,   \* self.base_revnum
    base_revid,    \* self.base_revid
    base_tree,     \* self.base_tree (None, or the revision the cached tree was built at)
    inventory,     \* self._inventory: path -> file id
    open_handles,  \* working-copy handles the last call opened and did not close
    ops,           \* number of calls made so far
    result,        \* what the last call did: its name, inputs, exception, return value
    renames,       \* calls of rename_one that callers in other processes are in
    bzrlib_version,         \* bzrlib.version_info: (major, minor) and release level
    versions_checked,       \* _versions_checked
    optimizers_registered,  \* _optimizers_registered
    optimisers,             \* what InterRepository.register_optimiser was given
    lazy_calls              \* the calls of the two lazy functions, in order

\* the state of the plugin module, and the state of a working tree
plugin == <<bzrlib_version, versions_checked, optimizers_registered,
            optimisers, lazy_calls>>
working_tree == <<branch_path, entries, wcprops, repo, base_revnum, base_revid,
                  base_tree, inventory, open_handles, ops, result, renames>>

vars == <<branch_path, entries, wcprops, repo, base_revnum, base_revid,
          base_tree, inventory, open_handles, ops, result, renames,
          bzrlib_version, versions_checked, optimizers_registered,
          optimisers, lazy_calls>>

-----------------------------------------------------------------------------
(* Bounds of the model *)

MaxOps == 2        \* calls per behaviour
MaxCopies == 2     \* copies another client has scheduled in the working copy
MaxBlobLen == 4    \* tokens in an arbitrary property blob
MaxMerges == 2     \* entries in a pending-merge list handed to the tree
MaxRenames == 2    \* calls of rename_one that run at the same time
MaxCalls == 4      \* calls of the plugin's lazy functions per behaviour

-----------------------------------------------------------------------------
(* Text *)

TAB == "\t"
NL == "\n"
SLASH == "/"

\* Python's None, kept apart from every text (no text holds this token);
\* None where a list of texts, or a dict of texts, is expected
None == <<"None">>
NoList == << None >>
NoDict == [k \in {None} |-> None]

Last(s) == s[Len(s)]
Front(s) == SubSeq(s, 1, Len(s) - 1)

\* F applied to the value of v, which is computed once
Then(v, F(_)) == CHOOSE r \in {F(x) : x \in {v}} : TRUE

RECURSIVE Concat(_)
\* "".join(seq)
Concat(seq) == IF seq = <<>> THEN <<>> ELSE Head(seq) \o Concat(Tail(seq))

RECURSIVE Join(_, _)
\* sep.join(seq)
Join(sep, seq) ==
    IF seq = <<>> THEN <<>>
    ELSE IF Len(seq) = 1 THEN seq[1]
    ELSE seq[1] \o <<sep>> \o Join(sep, Tail(seq))

RECURSIVE Split(_, _)
\* s.split(sep): always at least one piece
Split(s, sep) ==
    IF s = <<>> THEN << <<>> >>
    ELSE Then(Split(Tail(s), sep), LAMBDA rest :
            IF Head(s) = sep
            THEN << <<>> >> \o rest
            ELSE << <<Head(s)>> \o Head(rest) >> \o Tail(rest))

\* s.splitlines(): the pieces between newlines, without a final empty piece
SplitLines(s) ==
    Then(Split(s, NL), LAMBDA pieces :
        IF Last(pieces) = <<>> THEN Front(pieces) ELSE pieces)

RECURSIVE Strip(_, _)
\* s.strip(ch)
Strip(s, ch) ==
    IF s = <<>> THEN s
    ELSE IF Head(s) = ch THEN Strip(Tail(s), ch)
    ELSE IF Last(s) = ch THEN Strip(Front(s), ch)
    ELSE s

RECURSIVE RStrip(_, _)
RStrip(s, ch) ==
    IF s = <<>> THEN s
    ELSE IF Last(s) = ch THEN RStrip(Front(s), ch)
    ELSE s

\* os.path.dirname / os.path.basename / os.path.join
Dirname(p) ==
    Then(Split(p, SLASH), LAMBDA parts :
        IF Len(parts) = 1 THEN <<>> ELSE Join(SLASH, Front(parts)))
Basename(p) == Last(Split(p, SLASH))
PathJoin(a, b) ==
    IF a = <<>> THEN b
    ELSE IF Last(a) = SLASH THEN a \o b
    ELSE a \o <<SLASH>> \o b

\* every text of at most n tokens over an alphabet
Texts(alphabet, n) == UNION {[1..k -> alphabet] : k \in 0..n}

EmptyMap == [p \in {} |-> None]

\* the items of a dict, in the order the dict yields them
Items(m) ==
    Then(Cardinality(DOMAIN m), LAMBDA n :
        IF n = 0 THEN <<>>
        ELSE Then(CHOOSE f \in [1..n -> DOMAIN m] :
                     \A i, j \in 1..n : i # j => f[i] # f[j],
                  LAMBDA keys : [i \in 1..n |-> <<keys[i], m[keys[i]]>>]))

\* m with key k set to v / without key k
MapSet(m, k, v) == [x \in DOMAIN m \cup {k} |-> IF x = k THEN v ELSE m[x]]
MapDel(m, k) == [x \in DOMAIN m \ {k} |-> m[x]]

-----------------------------------------------------------------------------
(* Names and constants of the Subversion bindings *)

NODE_FILE == 1
NODE_DIR == 2
NODE_NONE == 0

SCHEDULE_NORMAL == "normal"
SCHEDULE_ADD == "add"
SCHEDULE_DELETE == "delete"
SCHEDULE_REPLACE == "replace"
\* any value of entry.schedule that is none of the four wc.SCHEDULE_*
SCHEDULE_OTHER == "other"

SVN_PROP_BZR_REVISION_ID == "revids"      \* bzr:revision-id:<scheme>
SVN_PROP_BZR_REVISION_INFO == "revinfo"   \* bzr:revision-info
SVN_PROP_BZR_FILEIDS == "fileids"         \* bzr:file-ids
SVN_PROP_BZR_ANCESTRY == "ancestry"       \* bzr:ancestry:<scheme>
SVN_PROP_SVK_MERGE == "svk"               \* svk:merge

PropNames == {SVN_PROP_BZR_REVISION_ID, SVN_PROP_BZR_REVISION_INFO,
              SVN_PROP_BZR_FILEIDS, SVN_PROP_BZR_ANCESTRY, SVN_PROP_SVK_MERGE}

\* no property set
NoProps == [n \in PropNames |-> None]

\* branchprop_list.get_property(branch_path, revnum, name, ""): the value the
\* branch root had at a revision, "" when the property was not set there
BranchProp(revnum, name) ==
    IF repo[revnum + 1].props[name] = None THEN <<>>
    ELSE repo[revnum + 1].props[name]

HeadRevnum == Len(repo) - 1

-----------------------------------------------------------------------------
(* The id table: SvnWorkingTree._change_fileid_mapping, _get_new_file_ids *)

\* "".join(map(lambda (path, id): "%s\t%s\n" % (path, id), new_entries.items()))
EncodeFileIds(new_entries) ==
    Then(Items(new_entries), LAMBDA items :
        Concat([i \in DOMAIN items |->
                   items[i][1] \o <<TAB>> \o items[i][2] \o <<NL>>]))

\* dict(map(lambda x: str(x).split("\t"), existing.splitlines())):
\* dict() takes pairs only and raises ValueError on any other length;
\* a later pair replaces an earlier one with the same key
DecodeFileIds(existing) ==
    Then(SplitLines(existing), LAMBDA lines :
    Then([i \in DOMAIN lines |-> Split(lines[i], TAB)], LAMBDA pairs :
        IF \E i \in DOMAIN pairs : Len(pairs[i]) # 2
        THEN [exc |-> "ValueError", val |-> EmptyMap]
        ELSE [exc |-> "none",
              val |-> [k \in {pairs[i][1] : i \in DOMAIN pairs} |->
                         pairs[CHOOSE i \in DOMAIN pairs :
                                  /\ pairs[i][1] = k
                                  /\ \A j \in DOMAIN pairs :
                                         pairs[j][1] = k => j <= i][2]]]))

\* _get_new_file_ids(adm), reading the property from props
GetNewFileIds(props) ==
    Then(BranchProp(base_revnum, SVN_PROP_BZR_FILEIDS), LAMBDA committed :
    Then(props[SVN_PROP_BZR_FILEIDS], LAMBDA existing :
        IF existing = None \/ committed = existing
        THEN [exc |-> "none", val |-> EmptyMap]
        ELSE DecodeFileIds(existing)))

\* lines 604-606 of _change_fileid_mapping: the table is written only when
\* its text is not empty
WriteFileIds(props, new_entries) ==
    Then(EncodeFileIds(new_entries), LAMBDA existing :
        IF existing # <<>>
        THEN [props EXCEPT ![SVN_PROP_BZR_FILEIDS] = existing]
        ELSE props)

\* _change_fileid_mapping(id, path, adm) without its handle: the properties
\* afterwards, or the exception the decoder raised
ChangeFileidMappingProps(props, id, path) ==
    Then(GetNewFileIds(props), LAMBDA got :
        IF got.exc # "none"
        THEN [exc |-> got.exc, props |-> props]
        ELSE [exc |-> "none",
              props |-> WriteFileIds(props, IF id = None THEN MapDel(got.val, path)
                                            ELSE MapSet(got.val, path, id))])

-----------------------------------------------------------------------------
(* The working copy and the repository, as the tree sees them *)

ROOT == <<>>
FilePaths == { <<"a">>, <<"b">>, <<"d", SLASH, "a">>, <<"d", SLASH, "b">> }
DirPaths == { ROOT, <<"d">> }
AllPaths == FilePaths \cup DirPaths

BranchPaths == { <<>>, <<"trunk">> }

\* entry.url[len(entry.repos):] of the entry at a working-copy path
Url(p) ==
    IF branch_path = <<>>
    THEN (IF p = ROOT THEN <<>> ELSE <<SLASH>> \o p)
    ELSE <<SLASH>> \o (IF p = ROOT THEN branch_path
                       ELSE branch_path \o <<SLASH>> \o p)

NoEntry == [kind |-> NODE_NONE, schedule |-> "none", url |-> None,
            copyfrom_url |-> None, copyfrom_rev |-> -1,
            revision |-> -1, cmt_rev |-> -1]

\* an entry as a checkout or a commit leaves it
NormalEntry(p, kind, rev) ==
    [kind |-> kind, schedule |-> SCHEDULE_NORMAL, url |-> Url(p),
     copyfrom_url |-> None, copyfrom_rev |-> -1,
     revision |-> rev, cmt_rev |-> rev]

Exists(ents, p) == ents[p].kind # NODE_NONE

\* a sequence holding the elements of a finite set, in some fixed order
SetToSeq(S) ==
    LET n == Cardinality(S)
    IN  IF n = 0 THEN <<>>
        ELSE CHOOSE f \in [1..n -> S] : \A i, j \in 1..n : i # j => f[i] # f[j]

\* mapping.escape_svn_path: urllib.quote(path, ""), which escapes "/"
EscapeSvnPath(s) == [i \in DOMAIN s |-> IF s[i] = SLASH THEN "%2F" ELSE s[i]]

\* branch.generate_revision_id(revnum)
GenerateRevisionId(revnum) == <<"svn-v3:", ToString(revnum)>>

\* the file id the repository's mapping gives a path first seen in a revision
GenerateFileId(revnum, path) == <<ToString(revnum), "@">> \o EscapeSvnPath(path)

\* branch.unprefix(path): a repository path relative to the branch
Unprefix(path) ==
    Then(Strip(path, SLASH), LAMBDA s :
    Then(Strip(branch_path, SLASH), LAMBDA bp :
        IF bp = <<>> THEN s
        ELSE IF s = bp THEN <<>>
        ELSE SubSeq(s, Len(bp) + 2, Len(s))))

NULL_REVISION == <<"null:">>

\* basis_tree(): the cached tree, built at the basis revision when there is
\* none; for an absent basis revision id the repository's empty revision
\* tree, which is not cached
NullTree == <<"RevisionTree">>
BasisTree(bt) ==
    IF base_revid = None \/ base_revid = NULL_REVISION THEN NullTree
    ELSE IF bt = None THEN <<"SvnBasisTree", base_revnum>>
    ELSE bt

\* self.base_tree after basis_tree() has been called
BaseTreeAfter(bt) ==
    IF base_revid = None \/ base_revid = NULL_REVISION THEN bt
    ELSE BasisTree(bt)

\* the id map of the repository's latest revision, whatever the tree's is
IdMapOfHead(tree) == repo[Len(repo)].id_map

\* SvnBasisTree.id_map: path -> (file id, revision id) at the tree's revision
IdMapOf(tree) == repo[tree[2] + 1].id_map

\* path_to_file_id(revnum, current_revnum, path) on the basis tree
PathToFileId(tree, revnum, current_revnum, path) ==
    Then(Unprefix(path), LAMBDA rp :
        IF revnum < 0 THEN [exc |-> "AssertionError", id |-> None, revid |-> None]
        ELSE IF tree = NullTree
        THEN [exc |-> "AttributeError", id |-> None, revid |-> None]
        ELSE IF rp \notin AllPaths \/ IdMapOf(tree)[rp] = None
        THEN [exc |-> "KeyError", id |-> None, revid |-> None]
        ELSE [exc |-> "none", id |-> IdMapOf(tree)[rp][1],
              revid |-> IdMapOf(tree)[rp][2]])

\* read_working_inventory.find_copies(url): the generator opens the root
\* directory (relpath defaults to "") and looks at its entries; the
\* condition  entry.name == "" or entry.kind != 'directory'  holds for every
\* entry, because kinds are the integers core.NODE_*, so the branch that
\* would descend is never taken (and would only create a generator)
FindCopies(ents, url) ==
    SetToSeq({PathJoin(Strip(branch_path, SLASH), PathJoin(<<>>, Basename(p))) :
                 p \in {q \in AllPaths :
                           /\ Exists(ents, q)
                           /\ (q = ROOT \/ Dirname(q) = ROOT)
                           /\ (ents[q].copyfrom_url = url \/ ents[q].url = url)
                           /\ ents[q].schedule \notin {SCHEDULE_DELETE,
                                                        SCHEDULE_REPLACE}}})

\* the id find_ids makes up for a path that has none: the "NEW-" marker and
\* the escaped path of the entry in the repository, from its name only
NewFileIdOfName(entry) == <<"NEW-">> \o EscapeSvnPath(Basename(entry.url))

\* the id find_ids makes up for a path that has none: the "NEW-" marker and
\* the escaped path of the entry in the repository
NewFileId(entry) == <<"NEW-">> \o EscapeSvnPath(Strip(entry.url, SLASH))

\* a find_ids that takes every schedule the library reports
SchedulesUnchecked == {SCHEDULE_NORMAL, SCHEDULE_DELETE, SCHEDULE_ADD,
                       SCHEDULE_REPLACE, SCHEDULE_OTHER}

\* lines 284-287 of find_ids: the schedules the assertion lets through
SchedulesAsserted == {SCHEDULE_NORMAL, SCHEDULE_DELETE, SCHEDULE_ADD,
                      SCHEDULE_REPLACE}

\* a find_ids that keeps the old id of an entry scheduled for deletion
FindIdsOfDeletedKept(tree, entry, relpath) ==
    PathToFileId(tree, entry.cmt_rev, entry.revision, relpath)

\* lines 293-294 of find_ids: an entry scheduled for deletion has no id
FindIdsOfDeleted(tree, entry, relpath) ==
    [exc |-> "none", id |-> None, revid |-> None]

\* read_working_inventory.find_ids(entry, rootwc)
FindIds(ents, props, tree, p) ==
    Then(ents[p], LAMBDA entry :
    Then(Strip(entry.url, SLASH), LAMBDA relpath :
        IF entry.schedule \notin SchedulesAsserted
        THEN [exc |-> "AssertionError", id |-> None, revid |-> None]
        ELSE IF entry.schedule = SCHEDULE_NORMAL
        THEN PathToFileId(tree, entry.cmt_rev, entry.revision, relpath)
        ELSE IF entry.schedule = SCHEDULE_DELETE
        THEN FindIdsOfDeleted(tree, entry, relpath)
        ELSE IF /\ entry.copyfrom_url # None
                /\ entry.copyfrom_url # <<>>
                /\ FindCopies(ents, entry.copyfrom_url) = <<relpath>>
        THEN PathToFileId(tree, entry.copyfrom_rev, entry.revision,
                          entry.copyfrom_url)
        ELSE Then(GetNewFileIds(props), LAMBDA ids :
                 IF ids.exc # "none"
                 THEN [exc |-> ids.exc, id |-> None, revid |-> None]
                 ELSE IF relpath \in DOMAIN ids.val
                 THEN [exc |-> "none", id |-> ids.val[relpath], revid |-> None]
                 ELSE [exc |-> "none", id |-> NewFileId(entry), revid |-> None])))

NoNode == [id |-> None, revision |-> None, parent_id |-> None]
EmptyInventory == [p \in AllPaths |-> NoNode]

RECURSIVE Reached(_, _, _)
\* add_dir_to_inv gets to the entry at p: the entry exists and every
\* directory above it was given an id
Reached(ents, ids, p) ==
    /\ Exists(ents, p)
    /\ \/ p = ROOT
       \/ /\ Reached(ents, ids, Dirname(p))
          /\ ids[Dirname(p)].exc = "none"
          /\ ids[Dirname(p)].id # None

\* inv.add(file) with any file id
InvAddAccepts(ids, included) == FALSE

\* inv.add(file) / inv.add_path(): the inventory refuses a file id it
\* already holds (DuplicateFileId)
InvAddRefuses(ids, included) ==
    \E p, q \in included : p # q /\ ids[p].id = ids[q].id

\* read_working_inventory(): the new inventory, or the exception that
\* stopped it; self.base_tree is built by the first path_to_file_id
ReadWorkingInventoryOf(ents, props, bt) ==
    Then(BasisTree(bt), LAMBDA tree :
    Then([p \in AllPaths |->
             IF Exists(ents, p) THEN FindIds(ents, props, tree, p)
             ELSE [exc |-> "none", id |-> None, revid |-> None]], LAMBDA ids :
    Then({p \in AllPaths : Reached(ents, ids, p)}, LAMBDA reached :
    Then({p \in reached : ids[p].exc # "none"}, LAMBDA raisers :
    Then({p \in reached : ids[p].exc = "none" /\ ids[p].id # None}, LAMBDA included :
        IF raisers # {}
        THEN [exc |-> ids[CHOOSE p \in raisers : TRUE].exc, inv |-> EmptyInventory,
              base_tree |-> BaseTreeAfter(bt)]
        ELSE IF InvAddRefuses(ids, included)
        THEN [exc |-> "DuplicateFileId", inv |-> EmptyInventory,
              base_tree |-> BaseTreeAfter(bt)]
        ELSE [exc |-> "none",
              inv |-> [p \in AllPaths |->
                         IF p \in included
                         THEN [id |-> ids[p].id, revision |-> ids[p].revid,
                               parent_id |-> IF p = ROOT THEN None
                                             ELSE ids[Dirname(p)].id]
                         ELSE NoNode],
              base_tree |-> BaseTreeAfter(bt)])))))

-----------------------------------------------------------------------------
(* The working-copy primitives the tree calls (wc.WorkingCopy) *)

\* adm.add(path): schedules an unversioned path that is on disk for addition
\* (for replacement when it is scheduled for deletion); nothing can be
\* added to a directory that is scheduled for deletion
WcAdd(ents, p, on_disk) ==
    IF Exists(ents, p) /\ ents[p].schedule # SCHEDULE_DELETE
    THEN [exc |-> "SubversionException:ERR_ENTRY_EXISTS", entries |-> ents]
    ELSE IF ~on_disk
    THEN [exc |-> "SubversionException:ERR_WC_PATH_NOT_FOUND", entries |-> ents]
    ELSE IF p # ROOT /\ ents[Dirname(p)].schedule = SCHEDULE_DELETE
    THEN [exc |-> "SubversionException:ERR_WC_SCHEDULE_CONFLICT", entries |-> ents]
    ELSE [exc |-> "none",
          entries |-> [ents EXCEPT ![p] =
              IF Exists(ents, p)
              THEN [@ EXCEPT !.kind = NODE_FILE, !.schedule = SCHEDULE_REPLACE]
              ELSE [kind |-> NODE_FILE, schedule |-> SCHEDULE_ADD, url |-> Url(p),
                    copyfrom_url |-> None, copyfrom_rev |-> -1,
                    revision |-> 0, cmt_rev |-> -1]]]

\* adm.delete(path): a committed path is scheduled for deletion, a path that
\* was only scheduled for addition loses its entry; a directory goes with
\* everything below it
WcDelete(ents, p) ==
    IF ~Exists(ents, p) \/ ents[p].schedule = SCHEDULE_DELETE
    THEN [exc |-> "SubversionException:ERR_UNVERSIONED_RESOURCE", entries |-> ents]
    ELSE [exc |-> "none",
          entries |-> [q \in AllPaths |->
              IF ~(q = p \/ (p # ROOT /\ q # ROOT /\ Dirname(q) = p))
                 \/ ~Exists(ents, q)
              THEN ents[q]
              ELSE IF ents[q].schedule = SCHEDULE_ADD THEN NoEntry
              ELSE [ents[q] EXCEPT !.schedule = SCHEDULE_DELETE,
                                   !.copyfrom_url = None, !.copyfrom_rev = -1]]]

\* adm.copy(src, dst): dst is added with history; only a committed source
\* can be copied, and only onto a free path in a directory that is not
\* scheduled for deletion
WcCopy(ents, src, dst) ==
    IF \/ ~Exists(ents, src)
       \/ ents[src].schedule # SCHEDULE_NORMAL
    THEN [exc |-> "SubversionException:ERR_UNSUPPORTED_FEATURE", entries |-> ents]
    ELSE IF Exists(ents, dst) /\ ents[dst].schedule # SCHEDULE_DELETE
    THEN [exc |-> "SubversionException:ERR_ENTRY_EXISTS", entries |-> ents]
    ELSE IF dst # ROOT /\ ents[Dirname(dst)].schedule = SCHEDULE_DELETE
    THEN [exc |-> "SubversionException:ERR_WC_INVALID_SCHEDULE", entries |-> ents]
    ELSE [exc |-> "none",
          entries |-> [ents EXCEPT ![dst] =
              [kind |-> ents[src].kind,
               schedule |-> IF Exists(ents, dst) THEN SCHEDULE_REPLACE ELSE SCHEDULE_ADD,
               url |-> Url(dst),
               copyfrom_url |-> ents[src].url,
               copyfrom_rev |-> ents[src].revision,
               revision |-> ents[src].revision,
               cmt_rev |-> ents[src].cmt_rev]]]

-----------------------------------------------------------------------------
(* One call of a method: the state it works on, the handles it holds, what *)
(* it did so far and the exception it is raising, if any                   *)

Start ==
    [entries |-> entries, props |-> wcprops, base_tree |-> base_tree,
     inventory |-> inventory, held |-> <<>>, events |-> <<>>, exc |-> "none"]

Ok(c) == c.exc = "none"
Raise(c, exc) == [c EXCEPT !.exc = exc]
Event(c, e, arg) == [c EXCEPT !.events = Append(@, <<e, arg>>)]

\* the call holds a write handle (a lock) on a directory
Locked(c, dir) == \E i \in DOMAIN c.held : c.held[i] = <<dir, TRUE>>

\* _get_wc(relpath, write_lock): wc.WorkingCopy(None, path, write_lock, 0, None);
\* a directory that is write-locked cannot be write-locked again
GetWc(c, dir, write) ==
    IF ~Ok(c) THEN c
    ELSE IF write /\ Locked(c, dir)
    THEN Raise(Event(c, "open-refused", dir), "SubversionException:ERR_WC_LOCKED")
    ELSE [Event(c, IF write THEN "open-write" ELSE "open-read", dir)
             EXCEPT !.held = Append(@, <<dir, write>>)]

\* adm.close(): runs whether or not the call is raising
CloseWc(c, dir, write) ==
    Then(CHOOSE i \in DOMAIN c.held :
            /\ c.held[i] = <<dir, write>>
            /\ \A j \in DOMAIN c.held : c.held[j] = <<dir, write>> => i <= j,
         LAMBDA i :
            [Event(c, "close", dir) EXCEPT
                !.held = SubSeq(c.held, 1, i - 1) \o SubSeq(c.held, i + 1, Len(c.held))])

\* a primitive called on the working copy, and its outcome
Apply(c, e, arg, r) ==
    IF ~Ok(c) THEN c
    ELSE IF r.exc # "none" THEN Raise(Event(c, e, arg), r.exc)
    ELSE [Event(c, e, arg) EXCEPT !.entries = r.entries]

\* _change_fileid_mapping(id, path, adm): with adm absent the root is
\* write-locked for the change and closed at the end (not in a finally)
ChangeFileidMapping(c, id, path, adm_given) ==
    IF ~Ok(c) THEN c
    ELSE Then(IF adm_given THEN c ELSE GetWc(c, ROOT, TRUE), LAMBDA c1 :
         IF ~Ok(c1) THEN c1
         ELSE Then(ChangeFileidMappingProps(c1.props, id, path), LAMBDA r :
              IF r.exc # "none" THEN Raise(c1, r.exc)
              ELSE IF adm_given THEN [c1 EXCEPT !.props = r.props]
              ELSE CloseWc([c1 EXCEPT !.props = r.props], ROOT, TRUE)))

\* read_working_inventory(): the root handle is closed in a finally; the
\* inventory is replaced only when the walk ends without an exception
ReadWorkingInventory(c) ==
    IF ~Ok(c) THEN c
    ELSE Then(GetWc(c, ROOT, FALSE), LAMBDA c1 :
         Then(ReadWorkingInventoryOf(c1.entries, c1.props, c1.base_tree), LAMBDA r :
         Then(CloseWc([c1 EXCEPT !.base_tree = r.base_tree], ROOT, FALSE), LAMBDA c2 :
              IF r.exc # "none" THEN Raise(c2, r.exc)
              ELSE [c2 EXCEPT !.inventory = r.inv])))

\* inventory.path2id(path)
Path2Id(inv, path) == IF path \in AllPaths THEN inv[path].id ELSE None

-----------------------------------------------------------------------------
(* SvnWorkingTree.rename_one, move, remove, add *)

\* rename_one(from_rel, to_rel)
RenameOne(c0, from_rel, to_rel) ==
    Then(Dirname(to_rel), LAMBDA to_dir :
    Then(Dirname(from_rel), LAMBDA from_dir :
    Then(GetWc(c0, to_dir, TRUE), LAMBDA c1 :
    \* "Prevent lock contention": one handle when the directories agree
    Then(IF from_dir = to_dir THEN c1 ELSE GetWc(c1, from_dir, TRUE), LAMBDA c2 :
    Then(Path2Id(c0.inventory, from_rel), LAMBDA from_id :
    Then(Apply(c2, "copy", to_rel, WcCopy(c2.entries, from_rel, to_rel)), LAMBDA c3 :
    Then(Apply(c3, "delete", from_rel, WcDelete(c3.entries, from_rel)), LAMBDA c4 :
    \* finally: to_wc.close()   (from_wc is not closed)
    Then(IF Ok(c2) THEN CloseWc(c4, to_dir, TRUE) ELSE c4, LAMBDA c5 :
    Then(ChangeFileidMapping(c5, None, from_rel, FALSE), LAMBDA c6 :
    Then(ChangeFileidMapping(c6, from_id, to_rel, FALSE), LAMBDA c7 :
    ReadWorkingInventory(c7)))))))))))

RECURSIVE MoveLoop(_, _, _, _)
\* the loop of move(from_paths, to_dir); inv is the inventory the ids are
\* looked up in (it is not rebuilt before the loop ends)
MoveLoop(c0, inv, from_paths, to_dir) ==
    IF from_paths = <<>> \/ ~Ok(c0) THEN c0
    ELSE
    Then(Head(from_paths), LAMBDA entry :
    Then(PathJoin(to_dir, Basename(entry)), LAMBDA new_name :
    Then(GetWc(c0, to_dir, TRUE), LAMBDA c1 :
    Then(Apply(c1, "copy", new_name, WcCopy(c1.entries, entry, new_name)), LAMBDA c2 :
    Then(IF Ok(c1) THEN CloseWc(c2, to_dir, TRUE) ELSE c2, LAMBDA c3 :
    \* the source is deleted through a handle on the root
    Then(GetWc(c3, ROOT, TRUE), LAMBDA c4 :
    Then(Apply(c4, "delete", entry, WcDelete(c4.entries, entry)), LAMBDA c5 :
    Then(IF Ok(c3) /\ Ok(c4) THEN CloseWc(c5, ROOT, TRUE) ELSE c5, LAMBDA c6 :
    Then(ChangeFileidMapping(c6, Path2Id(inv, entry), new_name, FALSE), LAMBDA c7 :
    Then(ChangeFileidMapping(c7, None, entry, FALSE), LAMBDA c8 :
    MoveLoop(c8, inv, Tail(from_paths), to_dir)))))))))))

\* move(from_paths, to_dir)
Move(c0, from_paths, to_dir) ==
    Then(MoveLoop(c0, c0.inventory, from_paths, to_dir), LAMBDA c :
    ReadWorkingInventory(c))

RECURSIVE RemoveDeletes(_, _)
RemoveDeletes(c, files) ==
    IF files = <<>> THEN c
    ELSE Then(Apply(c, "delete", Head(files), WcDelete(c.entries, Head(files))),
              LAMBDA c1 : RemoveDeletes(c1, Tail(files)))

RECURSIVE RemoveMappings(_, _)
RemoveMappings(c, files) ==
    IF files = <<>> THEN c
    ELSE Then(ChangeFileidMapping(c, None, Head(files), FALSE),
              LAMBDA c1 : RemoveMappings(c1, Tail(files)))

\* remove(files)
Remove(c0, files) ==
    Then(GetWc(c0, ROOT, TRUE), LAMBDA c1 :
    Then(RemoveDeletes(c1, files), LAMBDA c2 :
    Then(IF Ok(c1) THEN CloseWc(c2, ROOT, TRUE) ELSE c2, LAMBDA c3 :
    Then(RemoveMappings(c3, files), LAMBDA c4 :
    ReadWorkingInventory(c4)))))

\* add() that lets every exception of adm.add() through
AddExceptionUntranslated(exc) == exc

\* the except clause of add(): a path that is tracked already is skipped
\* (continue), a missing one is NoSuchFile, anything else is raised again
AddException(exc) ==
    IF exc = "SubversionException:ERR_ENTRY_EXISTS" THEN "none"
    ELSE IF exc = "SubversionException:ERR_WC_PATH_NOT_FOUND" THEN "NoSuchFile"
    ELSE exc

RECURSIVE AddLoop(_, _, _, _)
\* the loop of add(files, ids): ids is absent or the list the iterator still
\* has to yield; on_disk tells which of the paths are files on disk
AddLoop(c0, files, ids, on_disk) ==
    IF files = <<>> \/ ~Ok(c0) THEN c0
    ELSE
    Then(Head(files), LAMBDA f :
    Then(GetWc(c0, Dirname(f), TRUE), LAMBDA c1 :
    Then(Apply(c1, "add", f, WcAdd(c1.entries, f, f \in on_disk)), LAMBDA c2 :
    \* ids.next() is reached only when adm.add() did not raise
    Then(IF ~Ok(c2) \/ ids = NoList THEN c2
         ELSE IF ids = <<>> THEN Raise(c2, "StopIteration")
         ELSE ChangeFileidMapping(c2, Head(ids), f, TRUE), LAMBDA c3 :
    Then(IF Ok(c2) /\ ids # NoList /\ ids # <<>> THEN Tail(ids) ELSE ids,
         LAMBDA ids_left :
    \* except SubversionException: skip a tracked path, NoSuchFile for a
    \* missing one
    Then([c3 EXCEPT !.exc = AddException(c3.exc)], LAMBDA c4 :
    Then(IF Ok(c1) THEN CloseWc(c4, Dirname(f), TRUE) ELSE c4, LAMBDA c5 :
    AddLoop(c5, Tail(files), ids_left, on_disk))))))))

\* add(files, ids)
Add(c0, files, ids, on_disk) ==
    Then(AddLoop(c0, files, ids, on_disk), LAMBDA c : ReadWorkingInventory(c))

-----------------------------------------------------------------------------
(* SvnWorkingTree.commit *)

MaxRev == 3        \* highest revision number of the repository

\* mapping.generate_revision_metadata(timestamp, timezone, committer, revprops)
RevisionMetadata(timestamp, revprops) ==
    Then(IF revprops = NoDict THEN <<>> ELSE Items(revprops), LAMBDA items :
        <<"timestamp: ">> \o timestamp \o <<NL>>
        \o (IF items = <<>> THEN <<>> ELSE <<"properties: ", NL>>)
        \o Concat([i \in DOMAIN items |->
                      <<TAB>> \o items[i][1] \o <<": ">> \o items[i][2] \o <<NL>>]))

\* the revision ids as the root of the working copy has them
GetBzrRevidsOfWorkingCopy ==
    IF wcprops[SVN_PROP_BZR_REVISION_ID] = None THEN <<>>
    ELSE wcprops[SVN_PROP_BZR_REVISION_ID]

\* _get_bzr_revids()
GetBzrRevids == BranchProp(base_revnum, SVN_PROP_BZR_REVISION_ID)

\* branch.revno()
BranchRevno == repo[Len(repo)].revno

\* the paths a commit covers: the whole tree, or the files named
CommitTargets(specific_files) ==
    IF specific_files = NoList \/ specific_files = <<>> THEN AllPaths
    ELSE {specific_files[i] : i \in DOMAIN specific_files}

WholeTree(specific_files) == specific_files = NoList \/ specific_files = <<>>

\* the working copy after client.commit() has committed the targets
CommittedEntries(ents, specific_files, newrev) ==
    [p \in AllPaths |->
        IF p \notin CommitTargets(specific_files) \/ ~Exists(ents, p) THEN ents[p]
        ELSE IF ents[p].schedule \in {SCHEDULE_ADD, SCHEDULE_REPLACE}
        THEN NormalEntry(p, ents[p].kind, newrev)
        ELSE IF ents[p].schedule = SCHEDULE_DELETE THEN NoEntry
        ELSE IF p = ROOT /\ WholeTree(specific_files)
        THEN [ents[p] EXCEPT !.revision = newrev, !.cmt_rev = newrev]
        ELSE ents[p]]

\* the revision the repository gets from a commit: the root's properties
\* are committed with the whole tree only; a path added in the revision
\* takes its id from the committed id table, else a generated one
CommittedRevision(ents, props, specific_files, newrev) ==
    Then(repo[Len(repo)], LAMBDA head :
    Then(WholeTree(specific_files), LAMBDA whole :
    Then(IF /\ whole
            /\ props[SVN_PROP_BZR_FILEIDS] # None
            /\ props[SVN_PROP_BZR_FILEIDS] # head.props[SVN_PROP_BZR_FILEIDS]
         THEN DecodeFileIds(props[SVN_PROP_BZR_FILEIDS]).val
         ELSE EmptyMap, LAMBDA table :
        [props |-> IF whole THEN props ELSE head.props,
         revno |-> head.revno + 1,
         id_map |-> [p \in AllPaths |->
            IF p \notin CommitTargets(specific_files) \/ ~Exists(ents, p)
            THEN head.id_map[p]
            ELSE IF ents[p].schedule \in {SCHEDULE_ADD, SCHEDULE_REPLACE}
            THEN << IF p \in DOMAIN table THEN table[p] ELSE GenerateFileId(newrev, p),
                    GenerateRevisionId(newrev) >>
            ELSE IF ents[p].schedule = SCHEDULE_DELETE THEN None
            ELSE head.id_map[p]]])))

\* what there is to commit: a scheduled change of a target, or (for the
\* whole tree) a changed property of the root
HasChanges(ents, props, specific_files) ==
    \/ \E p \in CommitTargets(specific_files) :
           Exists(ents, p) /\ ents[p].schedule # SCHEDULE_NORMAL
    \/ WholeTree(specific_files) /\ props # repo[base_revnum + 1].props

\* adm.prop_set(name, value, self.basedir)
PropSet(c, name, value) ==
    IF ~Ok(c) THEN c
    ELSE [Event(c, "prop_set", <<name>>) EXCEPT !.props[name] = value]

\* lines 413-420: the author is stored in the caller's revprops before the
\* request for a local commit is refused
CommitRevprops(revprops, author) ==
    IF author # None /\ revprops # NoDict
    THEN MapSet(revprops, <<"author">>, author)
    ELSE revprops

CommitRefused(revprops, author, local) ==
    IF author # None /\ revprops = NoDict THEN "TypeError"
    ELSE IF local THEN "LocalCommitsUnsupported"
    ELSE "none"

\* lines 440-456: the revision id and the revision info are staged on the root
CommitStage(c0, revprops, rev_id, timestamp) ==
    Then(IF rev_id # None
         THEN <<ToString(BranchRevno + 1), " ">> \o rev_id \o <<NL>>
         ELSE <<>>, LAMBDA extra :
    Then(GetWc(c0, ROOT, TRUE), LAMBDA c1 :
    Then(PropSet(c1, SVN_PROP_BZR_REVISION_ID, GetBzrRevids \o extra), LAMBDA c2 :
    Then(PropSet(c2, SVN_PROP_BZR_REVISION_INFO,
                 RevisionMetadata(timestamp, revprops)), LAMBDA c3 :
    IF Ok(c1) THEN CloseWc(c3, ROOT, TRUE) ELSE c3))))

\* a rollback that sets back the revision ids only
CommitRollbackRevidOnly(c0, exc) ==
    Then(GetWc(c0, ROOT, TRUE), LAMBDA c1 :
    Then(PropSet(c1, SVN_PROP_BZR_REVISION_ID, GetBzrRevids), LAMBDA c2 :
    Then(IF Ok(c2) THEN CloseWc(c2, ROOT, TRUE) ELSE c2, LAMBDA c3 :
    IF Ok(c3) THEN Raise(c3, exc) ELSE c3)))

\* lines 465-478: the properties are set back to what the repository has at
\* the basis revision, and the exception is raised again
CommitRollback(c0, exc) ==
    Then(GetWc(c0, ROOT, TRUE), LAMBDA c1 :
    Then(PropSet(c1, SVN_PROP_BZR_REVISION_ID, GetBzrRevids), LAMBDA c2 :
    Then(PropSet(c2, SVN_PROP_BZR_REVISION_INFO,
                 BranchProp(base_revnum, SVN_PROP_BZR_REVISION_INFO)), LAMBDA c3 :
    Then(IF Ok(c3) THEN CloseWc(c3, ROOT, TRUE) ELSE c3, LAMBDA c4 :
    IF Ok(c4) THEN Raise(c4, exc) ELSE c4))))

\* every failure of client.commit() reported as an out-of-date tree
CommitExceptionTranslateAll(outcome) == "OutOfDateTree"

\* lines 458-464: the exception a failed client.commit() becomes
CommitException(outcome) ==
    IF outcome = "ERR_FS_TXN_OUT_OF_DATE" THEN "OutOfDateTree"
    ELSE "SubversionException:" \o outcome

\* the revision after the basis, whatever the repository has reached
CommitInfoRevnumFromBasis == base_revnum + 1

\* the revision number client.commit() returns in commit_info[0]
CommitInfoRevnum == HeadRevnum + 1

\* a client.commit() that is called again after it failed
ClientCommitRetried(c, outcome) ==
    IF ~Ok(c) THEN c
    ELSE IF outcome = "ok" THEN Event(c, "commit", <<outcome>>)
    ELSE Event(Event(c, "commit", <<outcome>>), "commit", <<outcome>>)

\* line 460: self.client_ctx.commit(specific_files, True, False)
ClientCommit(c, outcome) ==
    IF Ok(c) THEN Event(c, "commit", <<outcome>>) ELSE c

\* a commit that moves the basis before client.commit() has returned
BasisAfterCommitEarly(outcome, newrev) ==
    [base_revnum |-> newrev, base_revid |-> GenerateRevisionId(newrev)]

\* lines 482-485: the basis is assigned after client.commit() returned, and
\* stays when it raised
BasisAfterCommit(outcome, newrev) ==
    IF outcome = "ok"
    THEN [base_revnum |-> newrev, base_revid |-> GenerateRevisionId(newrev)]
    ELSE [base_revnum |-> base_revnum, base_revid |-> base_revid]

\* commit(...): the call, the repository and the basis afterwards
Commit(c0, revprops, rev_id, local, specific_files, author, timestamp, outcome) ==
    Then(CommitRevprops(revprops, author), LAMBDA revprops1 :
    Then(CommitRefused(revprops, author, local), LAMBDA refused :
    Then([c |-> c0, repo |-> repo, base_revnum |-> base_revnum,
          base_revid |-> base_revid, ret |-> None, revprops |-> revprops1],
         LAMBDA same :
    IF refused # "none" THEN [same EXCEPT !.c = Raise(c0, refused)]
    ELSE
    Then(CommitStage(c0, revprops1, rev_id, timestamp), LAMBDA c1 :
    Then(ClientCommit(c1, outcome), LAMBDA c2 :
    Then(CommitInfoRevnum, LAMBDA newrev :
        IF ~Ok(c2) THEN [same EXCEPT !.c = c2]
        ELSE IF outcome # "ok"
        THEN [same EXCEPT !.c = CommitRollback(c2, CommitException(outcome)),
                          !.base_revnum = BasisAfterCommit(outcome, newrev).base_revnum,
                          !.base_revid = BasisAfterCommit(outcome, newrev).base_revid]
        ELSE [c |-> [c2 EXCEPT !.entries = CommittedEntries(c2.entries, specific_files, newrev),
                               !.base_tree = None],
              repo |-> Append(repo, CommittedRevision(c2.entries, c2.props,
                                                      specific_files, newrev)),
              base_revnum |-> BasisAfterCommit(outcome, newrev).base_revnum,
              base_revid |-> BasisAfterCommit(outcome, newrev).base_revid,
              ret |-> GenerateRevisionId(newrev),
              revprops |-> revprops1]))))))

-----------------------------------------------------------------------------
(* Pending merges *)

\* commit._revision_id_to_svk_feature(revid): InvalidRevisionId for a
\* revision id that does not come from the Subversion mapping
RevisionIdToSvkFeature(revid) ==
    IF Len(revid) = 2 /\ revid[1] = "svn-v3:"
    THEN [exc |-> "none", val |-> <<"uuid:/branch:", revid[2]>>]
    ELSE [exc |-> "InvalidRevisionId", val |-> <<>>]

\* svk.parse_svk_features / serialize_svk_features
ParseSvkFeatures(text) ==
    Then(SplitLines(text), LAMBDA lines : {lines[i] : i \in DOMAIN lines})
SerializeSvkFeatures(features) ==
    Then(SetToSeq(features), LAMBDA seq :
        Concat([i \in DOMAIN seq |-> seq[i] \o <<NL>>]))

\* the ancestry as the root of the working copy has it
GetBzrMergesOfWorkingCopy ==
    IF wcprops[SVN_PROP_BZR_ANCESTRY] = None THEN <<>>
    ELSE wcprops[SVN_PROP_BZR_ANCESTRY]
\* _get_bzr_merges()
GetBzrMerges == BranchProp(base_revnum, SVN_PROP_BZR_ANCESTRY)
\* the svk:merge features as the root of the working copy has them
GetSvkMergesOfWorkingCopy ==
    IF wcprops[SVN_PROP_SVK_MERGE] = None THEN <<>>
    ELSE wcprops[SVN_PROP_SVK_MERGE]

\* _get_svk_merges()
GetSvkMerges == BranchProp(base_revnum, SVN_PROP_SVK_MERGE)

\* set_pending_merges that records the features of the given merges only and
\* forgets the features committed at the basis revision
SetPendingMergesForgetting(c0, merges) ==
    Then(GetWc(c0, ROOT, TRUE), LAMBDA c1 :
    Then(IF Len(merges) > 0 THEN Join(TAB, merges) \o <<NL>> ELSE <<>>,
         LAMBDA bzr_merge :
    Then(PropSet(c1, SVN_PROP_BZR_ANCESTRY, GetBzrMerges \o bzr_merge), LAMBDA c2 :
    Then({RevisionIdToSvkFeature(merges[i]).val :
                i \in {j \in DOMAIN merges :
                          RevisionIdToSvkFeature(merges[j]).exc = "none"}},
         LAMBDA svk_merges :
    Then(PropSet(c2, SVN_PROP_SVK_MERGE, SerializeSvkFeatures(svk_merges)), LAMBDA c3 :
    IF Ok(c1) THEN CloseWc(c3, ROOT, TRUE) ELSE c3)))))

\* set_pending_merges(merges)
SetPendingMerges(c0, merges) ==
    Then(GetWc(c0, ROOT, TRUE), LAMBDA c1 :
    Then(IF Len(merges) > 0 THEN Join(TAB, merges) \o <<NL>> ELSE <<>>,
         LAMBDA bzr_merge :
    Then(PropSet(c1, SVN_PROP_BZR_ANCESTRY, GetBzrMerges \o bzr_merge), LAMBDA c2 :
    Then(ParseSvkFeatures(GetSvkMerges) \cup
            {RevisionIdToSvkFeature(merges[i]).val :
                i \in {j \in DOMAIN merges :
                          RevisionIdToSvkFeature(merges[j]).exc = "none"}},
         LAMBDA svk_merges :
    Then(PropSet(c2, SVN_PROP_SVK_MERGE, SerializeSvkFeatures(svk_merges)), LAMBDA c3 :
    IF Ok(c1) THEN CloseWc(c3, ROOT, TRUE) ELSE c3)))))

\* a pending_merges that reads the first line of the property
PendingMergesOfFirstLine(c0) ==
    Then(SplitLines(GetBzrMerges), LAMBDA merged :
    Then(GetWc(c0, ROOT, FALSE), LAMBDA c1 :
    Then(c1.props[SVN_PROP_BZR_ANCESTRY], LAMBDA merged_data :
    Then(IF merged_data = None THEN <<>> ELSE SplitLines(merged_data),
         LAMBDA set_merged :
    Then(IF Ok(c1) THEN CloseWc(c1, ROOT, FALSE) ELSE c1, LAMBDA c2 :
        IF ~Ok(c2) THEN [c |-> c2, ret |-> <<>>]
        ELSE IF ~(Len(merged) = Len(set_merged) \/ Len(merged) + 1 = Len(set_merged))
        THEN [c |-> Raise(c2, "AssertionError"), ret |-> <<>>]
        ELSE IF Len(set_merged) > Len(merged)
        THEN [c |-> c2, ret |-> Split(Head(set_merged), TAB)]
        ELSE [c |-> c2, ret |-> <<>>])))))

\* pending_merges(): the call and the list it returns
PendingMerges(c0) ==
    Then(SplitLines(GetBzrMerges), LAMBDA merged :
    Then(GetWc(c0, ROOT, FALSE), LAMBDA c1 :
    Then(c1.props[SVN_PROP_BZR_ANCESTRY], LAMBDA merged_data :
    Then(IF merged_data = None THEN <<>> ELSE SplitLines(merged_data),
         LAMBDA set_merged :
    Then(IF Ok(c1) THEN CloseWc(c1, ROOT, FALSE) ELSE c1, LAMBDA c2 :
        IF ~Ok(c2) THEN [c |-> c2, ret |-> <<>>]
        ELSE IF ~(Len(merged) = Len(set_merged) \/ Len(merged) + 1 = Len(set_merged))
        THEN [c |-> Raise(c2, "AssertionError"), ret |-> <<>>]
        ELSE IF Len(set_merged) > Len(merged)
        THEN [c |-> c2, ret |-> Split(Last(set_merged), TAB)]
        ELSE [c |-> c2, ret |-> <<>>])))))

\* add_pending_merge(revid)
AddPendingMerge(c0, revid) ==
    Then(PendingMerges(c0), LAMBDA pm :
        IF ~Ok(pm.c) THEN pm.c
        ELSE SetPendingMerges(pm.c, Append(pm.ret, revid)))

-----------------------------------------------------------------------------
(* SvnWorkingTree.update, pull, set_last_revision *)

\* revnum=None of update() and _update()
NoRevnum == -1

\* branch.get_revnum(): the latest revision number
BranchGetRevnum == HeadRevnum

\* _update that goes to the latest revision whatever it is given
UpdateTargetLatest(revnum) == BranchGetRevnum

\* _update: the revision the working copy is brought to
UpdateTarget(revnum) == IF revnum = NoRevnum THEN BranchGetRevnum ELSE revnum

\* transport.do_update(revnum) and adm.crawl_revisions(): the entries follow
\* the branch at revnum; what is scheduled here stays scheduled
WcUpdate(ents, revnum) ==
    IF revnum < 0 \/ revnum > HeadRevnum
    THEN [exc |-> "SubversionException:ERR_FS_NO_SUCH_REVISION", entries |-> ents]
    ELSE IF repo[revnum + 1].id_map[ROOT] = None
    THEN [exc |-> "SubversionException:ERR_FS_NOT_FOUND", entries |-> ents]
    ELSE [exc |-> "none",
          entries |-> [p \in AllPaths |->
              IF Exists(ents, p) /\ ents[p].schedule = SCHEDULE_ADD THEN ents[p]
              ELSE IF repo[revnum + 1].id_map[p] = None THEN NoEntry
              ELSE IF Exists(ents, p) /\ ents[p].schedule # SCHEDULE_NORMAL
              THEN [ents[p] EXCEPT !.revision = revnum]
              ELSE NormalEntry(p, IF p \in DirPaths THEN NODE_DIR ELSE NODE_FILE,
                               revnum)]]

\* _update(revnum): the root handle is closed in a finally
UpdateWc(c0, revnum) ==
    Then(UpdateTarget(revnum), LAMBDA target :
    Then(GetWc(c0, ROOT, FALSE), LAMBDA c1 :
    Then(Apply(c1, "update", <<ToString(target)>>, WcUpdate(c1.entries, target)),
         LAMBDA c2 :
    IF Ok(c1) THEN CloseWc(c2, ROOT, FALSE) ELSE c2)))

\* pull(source, overwrite, stop_revision): the revision number is kept in
\* revnumber and _update is handed revnum, a name pull does not have
Pull(c0) == Raise(Event(c0, "lookup_revision_id", <<>>), "NameError")

\* branch.lookup_revision_id(revid): the revision number of a revision id
\* of this branch, none (NoSuchRevision) for any other id
LookupRevisionId(revid) ==
    IF \E n \in 0 .. HeadRevnum : revid = GenerateRevisionId(n)
    THEN CHOOSE n \in 0 .. HeadRevnum : revid = GenerateRevisionId(n)
    ELSE NoRevnum

\* the entries update_settings cannot get past, in the revision tree of
\* revision rev: a path the tree does not have (path2id gives None and
\* inventory[None] raises), and a file when the library refuses to open a
\* handle on a path that is no directory
UpdateSettingsStops(ents, rev, outcome) ==
    {p \in AllPaths \ {ROOT} :
        /\ Exists(ents, p)
        /\ \/ repo[rev + 1].id_map[p] = None
           \/ outcome # "ok" /\ ents[p].kind # NODE_DIR}

\* the sets of entries update_settings may have stamped when it stops at
\* stop: the root first, a directory before what is in it, and a directory
\* completely unless stop is in it; entries are visited in no set order
UpdateSettingsDone(ents, rev, outcome, stop) ==
    {done \in SUBSET ({p \in AllPaths : Exists(ents, p)}
                         \ UpdateSettingsStops(ents, rev, outcome)) :
        /\ ROOT \in done
        /\ Dirname(stop) \in done
        /\ \A p \in done \ {ROOT} : Dirname(p) \in done
        /\ \A d \in (done \cap DirPaths) \ {ROOT} :
              \/ Dirname(stop) = d
              \/ \A p \in AllPaths \ {ROOT} :
                     (Exists(ents, p) /\ Dirname(p) = d) => p \in done}

\* adm.process_committed(path, False, revnum, ...) on the entries of done:
\* an entry is as a commit of its revision leaves it
ProcessCommitted(ents, rev, done) ==
    [p \in AllPaths |->
        IF p \notin done THEN ents[p]
        ELSE IF ents[p].schedule = SCHEDULE_DELETE THEN NoEntry
        ELSE [ents[p] EXCEPT
                 !.schedule = SCHEDULE_NORMAL,
                 !.copyfrom_url = None, !.copyfrom_rev = -1,
                 !.revision = LookupRevisionId(repo[rev + 1].id_map[p][2]),
                 !.cmt_rev = LookupRevisionId(repo[rev + 1].id_map[p][2])]]

\* the second half of set_last_revision: update_settings(adm, "") under a
\* write handle on the root that is closed in a finally; stop is the entry
\* it fails at, if any, and done the entries it stamped before
UpdateSettings(c0, rev, outcome, stop, done) ==
    Then(GetWc(c0, ROOT, TRUE), LAMBDA c1 :
    Then(IF ~Ok(c1) THEN c1
         ELSE IF repo[rev + 1].id_map[ROOT] = None
         THEN Raise(Event(c1, "process_committed", ROOT), "NoSuchId")
         ELSE IF stop = None
         THEN [Event(c1, "process_committed", ROOT) EXCEPT
                  !.entries = ProcessCommitted(c1.entries, rev, done)]
         ELSE Raise([Event(c1, "process_committed", ROOT) EXCEPT
                        !.entries = ProcessCommitted(c1.entries, rev, done)],
                    IF outcome # "ok" /\ c1.entries[stop].kind # NODE_DIR
                    THEN outcome ELSE "NoSuchId"), LAMBDA c2 :
    IF Ok(c1) THEN CloseWc(c2, ROOT, TRUE) ELSE c2))

-----------------------------------------------------------------------------
(* The plugin module: lazy_check_versions and lazy_register_optimizers *)

\* line 57
COMPATIBLE_BZR_VERSIONS == << <<1, 6>>, <<1, 7>> >>

\* Python's order of tuples of two numbers
TupleLess(a, b) == a[1] < b[1] \/ (a[1] = b[1] /\ a[2] < b[2])

\* x in desired
InDesired(x, desired) == \E i \in DOMAIN desired : desired[i] = x

\* check_bzrlib_version(desired): returns for a compatible version and for
\* a development version one minor ahead, raises BzrError for an older
\* version, warns for a newer one and raises BzrError unless it is one minor
\* ahead
CheckBzrlibVersion(desired) ==
    Then(bzrlib_version.version, LAMBDA v :
        IF \/ InDesired(v, desired)
           \/ /\ InDesired(<<v[1], v[2] - 1>>, desired)
              /\ bzrlib_version.level \in {"dev", "exp"}
        THEN [exc |-> "none", warned |-> FALSE]
        ELSE IF TupleLess(v, desired[1])
        THEN [exc |-> "BzrError", warned |-> FALSE]
        ELSE IF ~InDesired(<<v[1], v[2] - 1>>, desired)
        THEN [exc |-> "BzrError", warned |-> TRUE]
        ELSE [exc |-> "none", warned |-> TRUE])

\* the module after import: lines 147 and 158, nothing registered or called
PluginLoaded(version) ==
    /\ bzrlib_version = version
    /\ versions_checked = FALSE
    /\ optimizers_registered = FALSE
    /\ optimisers = <<>>
    /\ lazy_calls = <<>>

\* a lazy_check_versions that remembers only a check that passed
VersionsCheckedWhenPassed(exc) == exc = "none"

\* lines 153-155: _versions_checked is set before check_bzrlib_version is
\* called, so it is set whatever the check does
VersionsCheckedAfter(exc) == TRUE

\* one call in lazy_calls
LazyCall(fn, exc, checked, warned, registered) ==
    [fn |-> fn, exc |-> exc, checked |-> checked, warned |-> warned,
     registered |-> registered]

\* lazy_check_versions()
LazyCheckVersions ==
    /\ Len(lazy_calls) < MaxCalls
    /\ IF versions_checked
       THEN /\ lazy_calls' = Append(lazy_calls,
                   LazyCall("lazy_check_versions", "none", FALSE, FALSE, <<>>))
            /\ UNCHANGED versions_checked
       ELSE \E r \in {CheckBzrlibVersion(COMPATIBLE_BZR_VERSIONS)} :
            /\ versions_checked' = VersionsCheckedAfter(r.exc)
            /\ lazy_calls' = Append(lazy_calls,
                   LazyCall("lazy_check_versions", r.exc, TRUE, r.warned, <<>>))
    /\ UNCHANGED <<working_tree, bzrlib_version, optimizers_registered, optimisers>>

\* lazy_register_optimizers(); imports is what the two imports at lines
\* 166-167 do when the call reaches them
LazyRegisterOptimizers(imports) ==
    /\ Len(lazy_calls) < MaxCalls
    /\ IF optimizers_registered
       THEN /\ lazy_calls' = Append(lazy_calls,
                   LazyCall("lazy_register_optimizers", "none", FALSE, FALSE, <<>>))
            /\ UNCHANGED <<optimizers_registered, optimisers>>
       ELSE IF imports # "ok"
       THEN /\ lazy_calls' = Append(lazy_calls,
                   LazyCall("lazy_register_optimizers", imports, FALSE, FALSE, <<>>))
            /\ UNCHANGED <<optimizers_registered, optimisers>>
       ELSE /\ optimizers_registered' = TRUE
            /\ optimisers' = optimisers
                   \o <<"InterFromSvnRepository", "InterToSvnRepository">>
            /\ lazy_calls' = Append(lazy_calls,
                   LazyCall("lazy_register_optimizers", "none", FALSE, FALSE,
                            <<"InterFromSvnRepository", "InterToSvnRepository">>))
    /\ UNCHANGED <<working_tree, bzrlib_version, versions_checked>>

-----------------------------------------------------------------------------
(* The state after construction *)

\* what a revision of the repository records of the branch
EmptyRevision ==
    [props |-> NoProps, revno |-> 0, id_map |-> [p \in AllPaths |-> None]]

\* the paths the first revision holds
InitialPaths == { ROOT, <<"a">>, <<"d">>, <<"d", SLASH, "a">> }

\* the properties the branch root may carry in the first revision
InitialProps ==
    { NoProps,
      [NoProps EXCEPT
          ![SVN_PROP_BZR_REVISION_ID] = <<"1", " ", "rev-1", NL>>,
          ![SVN_PROP_BZR_REVISION_INFO] = <<"timestamp: ", "t0", NL>>,
          ![SVN_PROP_BZR_ANCESTRY] = <<"svn-v3:", "5", NL>>,
          ![SVN_PROP_SVK_MERGE] = <<"uuid:/branch:", "5", NL>>] }

FirstRevision(props) ==
    [props |-> props, revno |-> 1,
     id_map |-> [p \in AllPaths |->
                    IF p \in InitialPaths
                    THEN <<GenerateFileId(1, p), GenerateRevisionId(1)>>
                    ELSE None]]

NoResult == [op |-> "init", args |-> <<>>, exc |-> "none", ret |-> None,
             events |-> <<>>, note |-> None]

\* an entry as adm.add() leaves it
AddedEntry(p) ==
    [kind |-> NODE_FILE, schedule |-> SCHEDULE_ADD, url |-> Url(p),
     copyfrom_url |-> None, copyfrom_rev |-> -1, revision |-> 0, cmt_rev |-> -1]

\* SvnWorkingTree.__init__ on a checkout of revision 1 (max_rev >= 0) in
\* which the paths of added are scheduled for addition and the root carries
\* the id table fileids
InitTree(bp, props, added, fileids) ==
    /\ branch_path = bp
    /\ repo = <<EmptyRevision, FirstRevision(props)>>
    /\ entries = [p \in AllPaths |->
                     IF p \in InitialPaths
                     THEN NormalEntry(p, IF p \in DirPaths THEN NODE_DIR ELSE NODE_FILE, 1)
                     ELSE IF p \in added THEN AddedEntry(p)
                     ELSE NoEntry]
    /\ wcprops = [props EXCEPT ![SVN_PROP_BZR_FILEIDS] = fileids]
    /\ base_revnum = 1
    /\ base_revid = GenerateRevisionId(1)
    /\ base_tree = BaseTreeAfter(None)
    /\ inventory = ReadWorkingInventoryOf(entries, wcprops, None).inv
    /\ open_handles = <<>>
    /\ renames = <<>>
    /\ PluginLoaded([version |-> <<1, 6>>, level |-> "final"])
    /\ ops = 0
    /\ result = NoResult

\* Inventory(): a new inventory has the root bzrlib gives it and nothing else
RootOnlyInventory ==
    [EmptyInventory EXCEPT
        ![ROOT] = [id |-> <<"TREE_ROOT">>, revision |-> None, parent_id |-> None]]

\* __init__ that makes a revision id of whatever revision_status reports
InitRevidAlways(max_rev) == GenerateRevisionId(max_rev)

\* __init__ that leaves base_revid absent whatever revision_status reports
InitRevidNever(max_rev) == None

\* __init__: base_revid is absent for a working copy without a revision
InitRevid(max_rev) ==
    IF max_rev < 0 THEN None ELSE GenerateRevisionId(max_rev)

\* the working copy a tree is opened on: nothing but scheduled additions
\* when it has no revision (max_rev < 0), else a checkout of revision 1
OpenedEntries(added, max_rev) ==
    [p \in AllPaths |->
        IF max_rev < 0
        THEN (IF p = ROOT THEN [AddedEntry(p) EXCEPT !.kind = NODE_DIR]
              ELSE IF p \in added THEN AddedEntry(p) ELSE NoEntry)
        ELSE IF p \in InitialPaths
        THEN NormalEntry(p, IF p \in DirPaths THEN NODE_DIR ELSE NODE_FILE, max_rev)
        ELSE IF p \in added THEN AddedEntry(p)
        ELSE NoEntry]

\* SvnWorkingTree.__init__(bzrdir, local_path, branch), where
\* wc.revision_status reports max_rev; the call and what it did are kept
OpenTree(bp, added, max_rev) ==
    /\ branch_path = bp
    /\ repo = <<EmptyRevision, FirstRevision(NoProps)>>
    /\ entries = OpenedEntries(added, max_rev)
    /\ wcprops = NoProps
    /\ base_revnum = max_rev
    /\ base_revid = InitRevid(max_rev)
    /\ open_handles = <<>>
    /\ renames = <<>>
    /\ PluginLoaded([version |-> <<1, 6>>, level |-> "final"])
    /\ ops = 0
    /\ \E c0 \in {[entries |-> entries, props |-> wcprops, base_tree |-> None,
                    inventory |-> RootOnlyInventory, held |-> <<>>,
                    events |-> << <<"open-read", ROOT>>, <<"revision_status", ROOT>> >>,
                    exc |-> "none"]} :
          \E c \in {IF max_rev < 0 THEN c0
                     ELSE ReadWorkingInventory(
                              Event(c0, "read_working_inventory", ROOT))} :
             /\ base_tree = c.base_tree
             /\ inventory = c.inventory
             /\ result = [op |-> "__init__", args |-> <<>>, exc |-> c.exc,
                          ret |-> None, events |-> c.events, note |-> None]

-----------------------------------------------------------------------------
(* The calls *)

\* the working copy and the tree after a call that leaves the repository
\* and the basis revision alone; note is what the call kept for itself
Finish(op, args, c, ret, note) ==
    /\ entries' = c.entries
    /\ wcprops' = c.props
    /\ base_tree' = c.base_tree
    /\ inventory' = c.inventory
    /\ open_handles' = c.held
    /\ ops' = ops + 1
    /\ result' = [op |-> op, args |-> args, exc |-> c.exc, ret |-> ret,
                  events |-> c.events, note |-> note]
    /\ UNCHANGED <<plugin, renames, branch_path, repo, base_revnum, base_revid>>

\* explicit file ids a caller hands to add()
ExplicitIds == { <<"X1">>, <<"X2">> }

CallRenameOne ==
    /\ ops < MaxOps
    /\ \E from_rel \in FilePaths, to_rel \in FilePaths :
          /\ from_rel # to_rel
          /\ Exists(entries, from_rel)
          /\ \E c \in {RenameOne(Start, from_rel, to_rel)} :
                Finish("rename_one", <<from_rel, to_rel>>, c, None,
                       Path2Id(inventory, from_rel))

CallMove ==
    /\ ops < MaxOps
    /\ \E entry \in FilePaths, to_dir \in DirPaths :
          /\ Exists(entries, entry)
          /\ PathJoin(to_dir, Basename(entry)) \in FilePaths
          /\ \E c \in {Move(Start, <<entry>>, to_dir)} :
                Finish("move", <<entry, to_dir>>, c, None, Path2Id(inventory, entry))

CallAdd ==
    /\ ops < MaxOps
    /\ \E f \in FilePaths, id \in ExplicitIds \cup {None}, on_disk \in BOOLEAN :
          /\ id # None => Dirname(f) = ROOT
          /\ \E c \in {Add(Start, <<f>>, IF id = None THEN NoList ELSE <<id>>,
                            IF on_disk THEN {f} ELSE {})} :
                Finish("add", <<f, id>>, c, None, None)

CallRemove ==
    /\ ops < MaxOps
    /\ \E f \in FilePaths :
          /\ Exists(entries, f)
          /\ \E c \in {Remove(Start, <<f>>)} :
                Finish("remove", <<f>>, c, None, None)

CallReadWorkingInventory ==
    /\ ops < MaxOps
    /\ \E c \in {ReadWorkingInventory(Start)} :
          Finish("read_working_inventory", <<>>, c, None, None)

\* the lists of one or two paths handed to add() and remove()
PathLists(paths) ==
    {<<f>> : f \in paths} \cup
    {<<pq[1], pq[2]>> : pq \in {x \in paths \X paths : x[1] # x[2]}}

\* add(files, ids) with a list of paths, with or without explicit ids, some
\* of the paths being on disk; the call keeps the indexes of the paths it
\* scheduled
CallAddList ==
    /\ ops < MaxOps
    /\ \E files \in PathLists(FilePaths), with_ids \in BOOLEAN :
       \E on_disk \in SUBSET {files[i] : i \in DOMAIN files} :
       \E ids \in (IF with_ids THEN [DOMAIN files -> ExplicitIds] ELSE {NoList}) :
          /\ with_ids => \A i \in DOMAIN files : Dirname(files[i]) = ROOT
          /\ \E c \in {Add(Start, files, ids, on_disk)} :
                Finish("add", <<files, ids>>, c, None,
                       [on_disk |-> on_disk,
                        scheduled |->
                          {i \in DOMAIN files :
                              /\ files[i] \in on_disk
                              /\ ~Exists(entries, files[i])
                                 \/ entries[files[i]].schedule = SCHEDULE_DELETE
                              /\ Exists(c.entries, files[i])
                              /\ c.entries[files[i]].schedule
                                    \in {SCHEDULE_ADD, SCHEDULE_REPLACE}}])

\* remove(files) with a list of paths, tracked or not
CallRemoveList ==
    /\ ops < MaxOps
    /\ \E files \in PathLists(FilePaths \cup { <<"d">> }) :
          \E c \in {Remove(Start, files)} :
             Finish("remove", files, c, None, None)

\* update(revnum): the basis is moved before the inventory is rebuilt
Update(revnum) ==
    \E orig_revnum \in {base_revnum}, c \in {UpdateWc(Start, revnum)} :
       IF ~Ok(c) THEN Finish("update", <<ToString(revnum)>>, c, None, orig_revnum)
       ELSE
       /\ base_revnum' = UpdateTarget(revnum)
       /\ base_revid' = GenerateRevisionId(base_revnum')
       /\ UNCHANGED <<plugin, renames, branch_path, repo>>
       /\ \E c1 \in {[c EXCEPT !.base_tree = None]} :
          \E c2 \in {ReadWorkingInventory(c1)'} :
             /\ entries' = c2.entries
             /\ wcprops' = c2.props
             /\ base_tree' = c2.base_tree
             /\ inventory' = c2.inventory
             /\ open_handles' = c2.held
             /\ ops' = ops + 1
             /\ result' = [op |-> "update", args |-> <<ToString(revnum)>>,
                           exc |-> c2.exc,
                           ret |-> IF Ok(c2)
                                   THEN <<ToString(base_revnum' - orig_revnum)>>
                                   ELSE None,
                           events |-> c2.events, note |-> orig_revnum]

CallUpdate ==
    /\ ops < MaxOps
    /\ \E revnum \in {NoRevnum} \cup (0 .. MaxRev) : Update(revnum)

CallPull ==
    /\ ops < MaxOps
    /\ \E c \in {Pull(Start)} : Finish("pull", <<>>, c, None, None)

\* a set_last_revision that takes only an absent revision id as the reset
IsNullRevisionNoneOnly(revid) == revid = None

\* line 361: revid is None or revid == NULL_REVISION
IsNullRevision(revid) == revid = None \/ revid = NULL_REVISION

\* set_last_revision(revid); outcome is what the library answers when a
\* handle is opened on an entry that is a file
SetLastRevision(revid, outcome) ==
    IF IsNullRevision(revid)
    THEN /\ base_revid' = revid
         /\ base_revnum' = 0
         /\ base_tree' = None
         /\ ops' = ops + 1
         /\ result' = [op |-> "set_last_revision", args |-> <<revid>>,
                       exc |-> "none", ret |-> None, events |-> <<>>,
                       note |-> None]
         /\ UNCHANGED <<plugin, renames, branch_path, repo, entries, wcprops, inventory,
                        open_handles>>
    ELSE
    \E rev \in {LookupRevisionId(revid)} :
       IF rev = NoRevnum
       THEN Finish("set_last_revision", <<revid>>, Raise(Start, "NoSuchRevision"),
                   None, None)
       ELSE
       /\ base_revnum' = rev
       /\ base_revid' = revid
       /\ UNCHANGED <<plugin, renames, branch_path, repo>>
       /\ \E stops \in {UpdateSettingsStops(entries, rev, outcome)} :
          \E stop \in (IF stops = {} THEN {None} ELSE stops) :
          \E done \in (IF stop = None THEN {{p \in AllPaths : Exists(entries, p)}}
                        ELSE UpdateSettingsDone(entries, rev, outcome, stop)) :
          \E c \in {UpdateSettings([Start EXCEPT !.base_tree = None],
                                    rev, outcome, stop, done)} :
             /\ entries' = c.entries
             /\ wcprops' = c.props
             /\ base_tree' = c.base_tree
             /\ inventory' = c.inventory
             /\ open_handles' = c.held
             /\ ops' = ops + 1
             /\ result' = [op |-> "set_last_revision", args |-> <<revid>>,
                           exc |-> c.exc, ret |-> None, events |-> c.events,
                           note |-> None]

\* what the library may answer when asked for a handle on a file
SubWcOutcomes == { "ok", "SubversionException:ERR_WC_NOT_DIRECTORY" }

CallSetLastRevision ==
    /\ ops < MaxOps
    /\ \E revid \in {None, NULL_REVISION, <<"native-1">>}
                      \cup {GenerateRevisionId(n) : n \in 0 .. HeadRevnum},
          outcome \in SubWcOutcomes :
          SetLastRevision(revid, outcome)

\* another Subversion client copies a file in the working copy (svn copy)
ExternalCopy ==
    /\ Cardinality({p \in FilePaths : Exists(entries, p)
                                     /\ entries[p].copyfrom_url # None}) < MaxCopies
    /\ \E src \in FilePaths, dst \in FilePaths :
          /\ src # dst
          /\ \E r \in {WcCopy(entries, src, dst)} :
                r.exc = "none" /\ entries' = r.entries
          /\ result' = [op |-> "svn copy", args |-> <<src, dst>>, exc |-> "none",
                        ret |-> None, events |-> <<>>, note |-> None]
          /\ UNCHANGED <<plugin, renames, branch_path, wcprops, repo, base_revnum, base_revid,
                         base_tree, inventory, open_handles, ops>>

\* the working-copy library reports an entry with a schedule that is none
\* of the four this code knows
ForeignSchedule ==
    /\ \A q \in AllPaths : entries[q].schedule # SCHEDULE_OTHER
    /\ \E p \in AllPaths :
          /\ Exists(entries, p)
          /\ entries' = [entries EXCEPT ![p].schedule = SCHEDULE_OTHER]
    /\ UNCHANGED <<plugin, renames, branch_path, wcprops, repo, base_revnum, base_revid,
                   base_tree, inventory, open_handles, ops, result>>

\* the inputs of commit()
CommitRevpropsInputs == { NoDict, EmptyMap }
CommitAuthors == { None, <<"jane">> }
\* (rev_id, timestamp): a commit that names its revision id and one that
\* does not
CommitStamps == { <<None, <<"t1">> >>, << <<"rev-x">>, <<"t2">> >> }
CommitOutcomes == { "ok", "ERR_FS_TXN_OUT_OF_DATE", "ERR_FS_CONFLICT" }

\* commit() with its inputs; the inputs a refused call never looks at are
\* not varied
CommitWith(revprops, author, rev_id, local, specific_files, timestamp, outcome) ==
    /\ ops < MaxOps
    /\ CommitRefused(revprops, author, local) # "none" =>
          /\ rev_id = None
          /\ specific_files = NoList
          /\ outcome = "ok"
    /\ specific_files # NoList =>
          /\ Exists(entries, specific_files[1])
          /\ entries[specific_files[1]].schedule # SCHEDULE_NORMAL
    /\ (outcome = "ok" /\ CommitRefused(revprops, author, local) = "none") =>
          HeadRevnum < MaxRev
    /\ \E out \in {Commit(Start, revprops, rev_id, local, specific_files,
                           author, timestamp, outcome)} :
        /\ (outcome = "ok" /\ CommitRefused(revprops, author, local) = "none") =>
              HasChanges(entries, out.c.props, specific_files)
        /\ entries' = out.c.entries
        /\ wcprops' = out.c.props
        /\ base_tree' = out.c.base_tree
        /\ inventory' = out.c.inventory
        /\ open_handles' = out.c.held
        /\ repo' = out.repo
        /\ base_revnum' = out.base_revnum
        /\ base_revid' = out.base_revid
        /\ ops' = ops + 1
        /\ result' = [op |-> "commit",
                      args |-> [revprops |-> revprops, author |-> author,
                                rev_id |-> rev_id, local |-> local,
                                specific_files |-> specific_files,
                                timestamp |-> timestamp, outcome |-> outcome],
                      exc |-> out.c.exc, ret |-> out.ret,
                      events |-> out.c.events, note |-> out.revprops]
        /\ UNCHANGED <<plugin, renames, branch_path>>

CallCommit ==
    \E revprops \in CommitRevpropsInputs, author \in CommitAuthors,
       stamp \in CommitStamps, local \in BOOLEAN,
       specific_files \in {NoList} \cup {<<f>> : f \in FilePaths},
       outcome \in CommitOutcomes :
       CommitWith(revprops, author, stamp[1], local, specific_files, stamp[2], outcome)

\* commit() as the callers of the tree operations use it: a message only
CallCommitPlain ==
    \E specific_files \in {NoList} \cup {<<f>> : f \in FilePaths},
       outcome \in CommitOutcomes :
       CommitWith(EmptyMap, None, None, FALSE, specific_files, <<"t1">>, outcome)

\* another client commits to the repository outside this branch
ForeignCommit ==
    /\ HeadRevnum < MaxRev
    /\ branch_path # <<>>
    /\ repo' = Append(repo, repo[Len(repo)])
    /\ UNCHANGED <<plugin, renames, branch_path, entries, wcprops, base_revnum, base_revid,
                   base_tree, inventory, open_handles, ops, result>>

\* another client replaces a file of the branch: the path gets a new identity
\* in the repository, and this working copy is behind
ForeignReplace ==
    /\ HeadRevnum < MaxRev
    /\ \E p \in { <<"a">> } :
          /\ repo[Len(repo)].id_map[p] # None
          /\ repo' = Append(repo,
                 [repo[Len(repo)] EXCEPT
                     !.revno = @ + 1,
                     !.id_map[p] = <<GenerateFileId(HeadRevnum + 1, p),
                                     GenerateRevisionId(HeadRevnum + 1)>>])
    /\ UNCHANGED <<plugin, renames, branch_path, entries, wcprops, base_revnum, base_revid,
                   base_tree, inventory, open_handles, ops, result>>

\* revision ids handed to the pending-merge calls: two that come from the
\* Subversion mapping and one that does not
MergeRevids == { <<"svn-v3:", "7">>, <<"svn-v3:", "8">>, <<"native-1">> }

CallSetPendingMerges ==
    /\ ops < MaxOps
    /\ \E merges \in UNION {[1..n -> MergeRevids] : n \in 0..MaxMerges} :
          \E c \in {SetPendingMerges(Start, merges)} :
             Finish("set_pending_merges", merges, c, None, None)

CallAddPendingMerge ==
    /\ ops < MaxOps
    /\ \E revid \in MergeRevids :
          /\ Len(PendingMerges(Start).ret) < MaxMerges
          /\ \E c \in {AddPendingMerge(Start, revid)} :
                Finish("add_pending_merge", revid, c, None, None)

CallPendingMerges ==
    /\ ops < MaxOps
    /\ \E pm \in {PendingMerges(Start)} :
          Finish("pending_merges", <<>>, pm.c, pm.ret, None)

\* the tokens an id table found on the root is written with
BlobAlphabet == { "a", "X1", TAB, NL }

\* _change_fileid_mapping(id, path): note is the mapping the call encodes
CallChangeFileidMapping ==
    /\ ops < MaxOps
    /\ \E id \in ExplicitIds \cup {None}, path \in { <<"a">>, <<"b">> } :
          \E got \in {GetNewFileIds(wcprops)},
             c \in {ChangeFileidMapping(Start, id, path, FALSE)} :
             Finish("_change_fileid_mapping", <<id, path>>, c, None,
                    IF id = None THEN MapDel(got.val, path)
                    ELSE MapSet(got.val, path, id))

\* _get_new_file_ids(adm) on a read handle of the root
CallGetNewFileIds ==
    /\ ops < MaxOps
    /\ \E c1 \in {GetWc(Start, ROOT, FALSE)} :
       \E got \in {GetNewFileIds(c1.props)} :
       \E c \in {IF got.exc # "none" THEN Raise(c1, got.exc)
                 ELSE CloseWc(c1, ROOT, FALSE)} :
          Finish("_get_new_file_ids", <<>>, c, got.val, None)

-----------------------------------------------------------------------------
(* rename_one called by several processes on one working copy.  Each       *)
(* process has a tree of its own, opened on the checkout; the entries, the *)
(* root's properties and the locks of the directories are shared.  A call  *)
(* goes through the statements of rename_one one at a time.                *)

\* some caller holds the write lock of the directory
WriteLocked(dir) ==
    \E q \in DOMAIN renames :
        \E i \in DOMAIN renames[q].held : renames[q].held[i] = dir

\* the caller's handles without its first handle on dir
Released(held, dir) ==
    Then(CHOOSE i \in DOMAIN held :
            held[i] = dir /\ \A j \in DOMAIN held : held[j] = dir => i <= j,
         LAMBDA i : SubSeq(held, 1, i - 1) \o SubSeq(held, i + 1, Len(held)))

\* a process calls rename_one(from_rel, to_rel) on its tree
RenameBegin ==
    /\ Len(renames) < MaxRenames
    /\ \E from_rel \in FilePaths, to_rel \in FilePaths :
          /\ from_rel # to_rel
          /\ renames' = Append(renames,
                [from_rel |-> from_rel, to_rel |-> to_rel, pc |-> "open_to",
                 held |-> <<>>, from_id |-> None, exc |-> "none",
                 inventory |-> inventory])
    /\ UNCHANGED <<plugin, branch_path, entries, wcprops, repo, base_revnum, base_revid,
                   base_tree, inventory, open_handles, ops, result>>

\* the tree's own state is all a step of a call changes, unless it says so
RenameFrame ==
    UNCHANGED <<plugin, branch_path, repo, base_revnum, base_revid, base_tree,
                inventory, open_handles, ops, result>>

\* line 207: (to_wc, to_file) = self._get_rel_wc(to_rel, write_lock=True)
RenameOpenTo(p) ==
    /\ renames[p].pc = "open_to"
    /\ renames' = [renames EXCEPT ![p] =
          IF WriteLocked(Dirname(@.to_rel))
          THEN [@ EXCEPT !.pc = "raised",
                         !.exc = "SubversionException:ERR_WC_LOCKED"]
          ELSE [@ EXCEPT !.pc = "open_from",
                         !.held = Append(@, Dirname(renames[p].to_rel))]]
    /\ RenameFrame
    /\ UNCHANGED <<entries, wcprops>>

\* lines 208-213: from_wc is to_wc, or a second write handle; from_id
RenameOpenFrom(p) ==
    /\ renames[p].pc = "open_from"
    /\ renames' = [renames EXCEPT ![p] =
          IF Dirname(@.from_rel) = Dirname(@.to_rel)
          THEN [@ EXCEPT !.pc = "copy",
                         !.from_id = Path2Id(renames[p].inventory, renames[p].from_rel)]
          ELSE IF WriteLocked(Dirname(@.from_rel))
          THEN [@ EXCEPT !.pc = "raised",
                         !.exc = "SubversionException:ERR_WC_LOCKED"]
          ELSE [@ EXCEPT !.pc = "copy",
                         !.held = Append(@, Dirname(renames[p].from_rel)),
                         !.from_id = Path2Id(renames[p].inventory, renames[p].from_rel)]]
    /\ RenameFrame
    /\ UNCHANGED <<entries, wcprops>>

\* line 215: to_wc.copy(self.abspath(from_rel), to_file)
RenameCopy(p) ==
    /\ renames[p].pc = "copy"
    /\ \E r \in {WcCopy(entries, renames[p].from_rel, renames[p].to_rel)} :
          /\ entries' = r.entries
          /\ renames' = [renames EXCEPT ![p] =
                IF r.exc = "none" THEN [@ EXCEPT !.pc = "delete"]
                ELSE [@ EXCEPT !.pc = "finally", !.exc = r.exc]]
    /\ RenameFrame
    /\ UNCHANGED wcprops

\* line 216: from_wc.delete(self.abspath(from_rel))
RenameDelete(p) ==
    /\ renames[p].pc = "delete"
    /\ \E r \in {WcDelete(entries, renames[p].from_rel)} :
          /\ entries' = r.entries
          /\ renames' = [renames EXCEPT ![p] = [@ EXCEPT !.pc = "finally", !.exc = r.exc]]
    /\ RenameFrame
    /\ UNCHANGED wcprops

\* lines 217-218: finally: to_wc.close()
RenameFinally(p) ==
    /\ renames[p].pc = "finally"
    /\ renames' = [renames EXCEPT ![p] =
          [@ EXCEPT !.pc = IF renames[p].exc = "none" THEN "unmap" ELSE "raised",
                    !.held = Released(@, Dirname(renames[p].to_rel))]]
    /\ RenameFrame
    /\ UNCHANGED <<entries, wcprops>>

\* _change_fileid_mapping(id, path) by the caller p: the root is write-locked
\* for the change and released after it
RenameChangeMapping(p, id, path, next) ==
    IF WriteLocked(ROOT)
    THEN /\ renames' = [renames EXCEPT ![p] =
               [@ EXCEPT !.pc = "raised", !.exc = "SubversionException:ERR_WC_LOCKED"]]
         /\ UNCHANGED wcprops
    ELSE \E r \in {ChangeFileidMappingProps(wcprops, id, path)} :
         /\ wcprops' = r.props
         /\ renames' = [renames EXCEPT ![p] =
               IF r.exc = "none" THEN [@ EXCEPT !.pc = next]
               ELSE [@ EXCEPT !.pc = "raised", !.exc = r.exc]]

\* line 219: self._change_fileid_mapping(None, from_rel)
RenameUnmap(p) ==
    /\ renames[p].pc = "unmap"
    /\ RenameChangeMapping(p, None, renames[p].from_rel, "map")
    /\ RenameFrame
    /\ UNCHANGED entries

\* line 220: self._change_fileid_mapping(from_id, to_rel)
RenameMap(p) ==
    /\ renames[p].pc = "map"
    /\ RenameChangeMapping(p, renames[p].from_id, renames[p].to_rel, "read")
    /\ RenameFrame
    /\ UNCHANGED entries

\* line 221: self.read_working_inventory(), through a read handle on the root
RenameRead(p) ==
    /\ renames[p].pc = "read"
    /\ \E r \in {ReadWorkingInventoryOf(entries, wcprops, base_tree)} :
          renames' = [renames EXCEPT ![p] =
             IF r.exc = "none" THEN [@ EXCEPT !.pc = "done", !.inventory = r.inv]
             ELSE [@ EXCEPT !.pc = "raised", !.exc = r.exc]]
    /\ RenameFrame
    /\ UNCHANGED <<entries, wcprops>>

\* the call is over and the handles it did not close go when the
\* interpreter frees them
RenameCollect(p) ==
    /\ renames[p].pc \in {"done", "raised"}
    /\ renames[p].held # <<>>
    /\ renames' = [renames EXCEPT ![p] = [@ EXCEPT !.held = <<>>]]
    /\ RenameFrame
    /\ UNCHANGED <<entries, wcprops>>

-----------------------------------------------------------------------------
(* Specifications *)

\* committing: the tree is changed by add and remove and committed, while
\* other clients commit elsewhere in the repository
InitCommit ==
    \E bp \in BranchPaths, props \in InitialProps, added \in SUBSET { <<"b">> } :
       InitTree(bp, props, added, None)

NextCommit ==
    \/ CallCommit
    \/ ForeignCommit
    \/ CallAdd
    \/ CallRemove

SpecCommit == InitCommit /\ [][NextCommit]_vars

\* file identities: the tree operations, copies made by other clients, commits
InitIds == \E bp \in BranchPaths : InitTree(bp, NoProps, {}, None)

NextIds ==
    \/ CallRenameOne
    \/ CallMove
    \/ CallAdd
    \/ CallRemove
    \/ CallReadWorkingInventory
    \/ ExternalCopy
    \/ ForeignReplace
    \/ CallCommitPlain

SpecIds == InitIds /\ [][NextIds]_vars

\* pending merges
InitMerges == \E props \in InitialProps : InitTree(<<"trunk">>, props, {}, None)

NextMerges ==
    \/ CallSetPendingMerges
    \/ CallAddPendingMerge
    \/ CallPendingMerges
    \/ CallCommitPlain

SpecMerges == InitMerges /\ [][NextMerges]_vars

\* the id table: a working copy whose root carries any text as its table
InitCodec ==
    \E blob \in {None} \cup Texts(BlobAlphabet, MaxBlobLen) :
       InitTree(<<>>, NoProps, {}, blob)

NextCodec ==
    \/ CallChangeFileidMapping
    \/ CallGetNewFileIds

SpecCodec == InitCodec /\ [][NextCodec]_vars

\* the tree operations with lists of paths, on a working copy whose root may
\* carry an id table written by an earlier add
InitTables ==
    { <<{}, None>>,
      <<{ <<"b">> }, None>>,
      <<{ <<"b">> }, <<"b", TAB, "X1", NL>> >> }

InitOps ==
    \E bp \in BranchPaths, t \in InitTables : InitTree(bp, NoProps, t[1], t[2])

NextOps ==
    \/ CallAddList
    \/ CallRemoveList
    \/ CallMove
    \/ CallRenameOne
    \/ CallReadWorkingInventory
    \/ CallCommitPlain
    \/ CallUpdate
    \/ CallSetLastRevision
    \/ CallPull
    \/ CallSetPendingMerges
    \/ CallPendingMerges

SpecOps == InitOps /\ [][NextOps]_vars

\* opening a tree, on a working copy with or without a revision, and
\* updating it while other clients commit
InitOpen ==
    \E bp \in BranchPaths, added \in SUBSET { <<"b">> }, max_rev \in {-1, 1} :
       OpenTree(bp, added, max_rev)

NextOpen ==
    \/ CallUpdate
    \/ CallSetLastRevision
    \/ CallPull
    \/ ForeignCommit
    \/ ForeignReplace
    \/ base_revnum >= 0 /\ CallReadWorkingInventory
    \/ base_revnum >= 0 /\ CallAdd
    \/ base_revnum >= 0 /\ CallCommitPlain

SpecOpen == InitOpen /\ [][NextOpen]_vars

\* rebuilding the inventory of a working copy whose entries the library
\* reports with any schedule
InitRebuild == InitOps

NextRebuild ==
    \/ ForeignSchedule
    \/ CallReadWorkingInventory
    \/ CallRemoveList
    \/ CallAdd

SpecRebuild == InitRebuild /\ [][NextRebuild]_vars

\* rename_one by several processes at a time on one checkout
InitRenames == \E bp \in BranchPaths : InitTree(bp, NoProps, {}, None)

NextRenames ==
    \/ RenameBegin
    \/ \E p \in DOMAIN renames : RenameOpenTo(p)
    \/ \E p \in DOMAIN renames : RenameOpenFrom(p)
    \/ \E p \in DOMAIN renames : RenameCopy(p)
    \/ \E p \in DOMAIN renames : RenameDelete(p)
    \/ \E p \in DOMAIN renames : RenameFinally(p)
    \/ \E p \in DOMAIN renames : RenameUnmap(p)
    \/ \E p \in DOMAIN renames : RenameMap(p)
    \/ \E p \in DOMAIN renames : RenameRead(p)
    \/ \E p \in DOMAIN renames : RenameCollect(p)

SpecRenames == InitRenames /\ [][NextRenames]_vars

\* the plugin module after import under any version of bzrlib, no working
\* tree opened
BzrlibVersions ==
    { [version |-> <<1, 5>>, level |-> "final"],
      [version |-> <<1, 6>>, level |-> "final"],
      [version |-> <<1, 7>>, level |-> "dev"],
      [version |-> <<1, 8>>, level |-> "dev"],
      [version |-> <<1, 8>>, level |-> "final"],
      [version |-> <<1, 9>>, level |-> "final"] }

ImportOutcomes == {"ok", "ImportError"}

InitLazy ==
    /\ \E version \in BzrlibVersions : PluginLoaded(version)
    /\ branch_path = <<>>
    /\ repo = <<EmptyRevision>>
    /\ entries = [p \in AllPaths |-> NoEntry]
    /\ wcprops = NoProps
    /\ base_revnum = NoRevnum
    /\ base_revid = None
    /\ base_tree = None
    /\ inventory = EmptyInventory
    /\ open_handles = <<>>
    /\ renames = <<>>
    /\ ops = 0
    /\ result = NoResult

NextLazy ==
    \/ LazyCheckVersions
    \/ \E imports \in ImportOutcomes : LazyRegisterOptimizers(imports)

SpecLazy == InitLazy /\ [][NextLazy]_vars

\* every call
Init == InitCommit \/ InitCodec \/ InitOps \/ InitOpen \/ InitRenames \/ InitLazy

Next ==
    \/ NextCommit
    \/ NextIds
    \/ NextMerges
    \/ NextCodec
    \/ NextOps
    \/ NextOpen
    \/ NextRebuild
    \/ NextRenames
    \/ NextLazy

Spec == Init /\ [][Next]_vars

-----------------------------------------------------------------------------
(* Properties of commit *)

\* the step is a call of commit()
CommitStep == ops' = ops + 1 /\ result'.op = "commit"

\* client.commit() was reached by the call the step makes
CommitReached ==
    /\ CommitStep
    /\ CommitRefused(result'.args.revprops, result'.args.author,
                     result'.args.local) = "none"

\* a property value, with an absent property read as the empty text
Value(v) == IF v = None THEN <<>> ELSE v

\* the two properties commit() stages
StagedNames == {SVN_PROP_BZR_REVISION_ID, SVN_PROP_BZR_REVISION_INFO}

\* the events of the rollback, which end a failed call
RollbackEvents ==
    << <<"open-write", ROOT>>, <<"prop_set", <<SVN_PROP_BZR_REVISION_ID>> >>,
       <<"prop_set", <<SVN_PROP_BZR_REVISION_INFO>> >>, <<"close", ROOT>> >>

EndsWithRollback(events) ==
    /\ Len(events) >= 4
    /\ SubSeq(events, Len(events) - 3, Len(events)) = RollbackEvents

\* C1 as stated: when client.commit() fails with the out-of-date code after
\* the root metadata was staged, the revision-id and revision-info properties
\* of the root are afterwards what they were before the staging, and the call
\* raises OutOfDateTree
C1_PreStageValues ==
    [][ (CommitReached /\ result'.args.outcome = "ERR_FS_TXN_OUT_OF_DATE") =>
           /\ result'.exc = "OutOfDateTree"
           /\ \A n \in StagedNames : Value(wcprops'[n]) = Value(wcprops[n]) ]_vars

\* C1 amended: when client.commit() fails with the out-of-date code after the
\* staging, the call raises OutOfDateTree and both properties are afterwards
\* the values the repository has at the basis revision; these are the
\* pre-stage values whenever the root carried the repository's values before
\* the call
C1_RollbackToBasis ==
    [][ (CommitReached /\ result'.args.outcome = "ERR_FS_TXN_OUT_OF_DATE") =>
           /\ result'.exc = "OutOfDateTree"
           /\ EndsWithRollback(result'.events)
           /\ \A n \in StagedNames :
                 /\ wcprops'[n] = BranchProp(base_revnum, n)
                 /\ Value(wcprops[n]) = BranchProp(base_revnum, n)
                       => Value(wcprops'[n]) = Value(wcprops[n])
           /\ UNCHANGED <<repo, base_revnum, base_revid>> ]_vars

\* C1 witness: a commit failed as out of date and the staged revision info
\* is gone from the root
C1_Witness ==
    /\ result.op = "commit"
    /\ result.exc = "OutOfDateTree"
    /\ EndsWithRollback(result.events)
    /\ wcprops[SVN_PROP_BZR_REVISION_INFO]
          = BranchProp(base_revnum, SVN_PROP_BZR_REVISION_INFO)
    /\ wcprops[SVN_PROP_BZR_REVISION_INFO]
          # RevisionMetadata(result.args.timestamp, result.note)

\* C2: when client.commit() fails with another code than out-of-date, the
\* caller gets that same error, after both staged properties were set to the
\* values the repository has at the basis revision
C2_OtherErrorsPropagate ==
    [][ (CommitReached /\ result'.args.outcome
                             \notin {"ok", "ERR_FS_TXN_OUT_OF_DATE"}) =>
           /\ result'.exc = "SubversionException:" \o result'.args.outcome
           /\ EndsWithRollback(result'.events)
           /\ \A n \in StagedNames : wcprops'[n] = BranchProp(base_revnum, n)
           /\ UNCHANGED <<repo, base_revnum, base_revid>> ]_vars

\* C2 witness: a commit failed with a conflict, the error reached the caller
\* and the staged revision info is gone from the root
C2_Witness ==
    /\ result.op = "commit"
    /\ result.exc = "SubversionException:ERR_FS_CONFLICT"
    /\ EndsWithRollback(result.events)
    /\ wcprops[SVN_PROP_BZR_REVISION_INFO]
          = BranchProp(base_revnum, SVN_PROP_BZR_REVISION_INFO)
    /\ wcprops[SVN_PROP_BZR_REVISION_INFO]
          # RevisionMetadata(result.args.timestamp, result.note)

\* C3 as stated: after a commit that succeeds the basis revision number is
\* the previous one plus one, the basis revision id is the id generated for
\* the new number, and commit returns that id
C3_BasisPlusOne ==
    [][ (CommitStep /\ result'.exc = "none") =>
           /\ base_revnum' = base_revnum + 1
           /\ base_revid' = GenerateRevisionId(base_revnum')
           /\ result'.ret = base_revid' ]_vars

\* C3 amended: after a commit that succeeds the basis revision number is the
\* number of the revision the commit created, the repository's latest plus
\* one (the previous basis plus one when the basis was the latest revision),
\* the basis revision id is the id generated for it, and commit returns it
C3_BasisIsCommitted ==
    [][ (CommitStep /\ result'.exc = "none") =>
           /\ base_revnum' = HeadRevnum + 1
           /\ base_revnum' = Len(repo') - 1
           /\ base_revnum' > base_revnum
           /\ base_revnum = HeadRevnum => base_revnum' = base_revnum + 1
           /\ base_revid' = GenerateRevisionId(base_revnum')
           /\ result'.ret = base_revid'
           /\ base_tree' = None ]_vars

\* C3 witness: the first call was a commit that succeeded after another
\* client had committed, and the basis went from 1 to 3
C3_Witness ==
    /\ ops = 1
    /\ result.op = "commit"
    /\ result.exc = "none"
    /\ base_revnum = 3
    /\ base_revid = GenerateRevisionId(3)
    /\ result.ret = base_revid

\* C10: commit(local=True) raises LocalCommitsUnsupported and has no side
\* effect: no property written, no handle opened, client.commit() not called,
\* the caller's revprops as they were, the basis unchanged
C10_LocalCommitNoSideEffects ==
    [][ (CommitStep /\ result'.args.local) =>
           /\ result'.exc = "LocalCommitsUnsupported"
           /\ result'.events = <<>>
           /\ result'.note = result'.args.revprops
           /\ UNCHANGED <<entries, wcprops, repo, base_revnum, base_revid>> ]_vars

-----------------------------------------------------------------------------
(* Properties of file identities *)

\* the step is a call of rename_one(A, B) or move([A], dir) on a committed,
\* unchanged path A that has an id, with a free target
MoveStep ==
    /\ ops' = ops + 1
    /\ result'.op \in {"rename_one", "move"}
    /\ entries[result'.args[1]].schedule = SCHEDULE_NORMAL
    /\ result'.note # None

\* the path the step moves A to
MoveTarget ==
    IF result'.op = "rename_one" THEN result'.args[2]
    ELSE PathJoin(result'.args[2], Basename(result'.args[1]))

\* C4: after rename_one(A, B) or move([A], dir) of a tracked path to a free
\* target, in the root or a subdirectory and for any branch path, the
\* rebuilt inventory has B with the file id A had and does not have A
C4_MovePreservesIdentity ==
    [][ (MoveStep /\ ~Exists(entries, MoveTarget)) =>
           /\ inventory'[MoveTarget].id = result'.note
           /\ inventory'[result'.args[1]].id = None ]_vars

\* the inventory was rebuilt by the last call
Rebuilt ==
    /\ result.op \in {"rename_one", "move", "add", "remove", "read_working_inventory"}
    /\ result.exc = "none"

\* B is a copy of A that is still there, scheduled for addition
CopyOf(b, a) ==
    /\ Exists(entries, b)
    /\ entries[b].schedule = SCHEDULE_ADD
    /\ entries[b].copyfrom_url = Url(a)

\* C5: when A was copied to both B and C, both present and scheduled for
\* addition with the same copy-from URL (and no id was recorded for them in
\* the id table), the rebuilt inventory gives B and C two distinct ids,
\* neither of them the id of A
C5_DuplicateCopyIsNoMove ==
    (Rebuilt /\ GetNewFileIds(wcprops).val = EmptyMap) =>
       \A a, b, c \in FilePaths :
          (b # c /\ CopyOf(b, a) /\ CopyOf(c, a) /\ repo[base_revnum + 1].id_map[a] # None) =>
             /\ inventory[b].id # None
             /\ inventory[c].id # None
             /\ inventory[b].id # inventory[c].id
             /\ inventory[b].id # repo[base_revnum + 1].id_map[a][1]
             /\ inventory[c].id # repo[base_revnum + 1].id_map[a][1]

\* the identity find_ids gives the entry at p
Identity(p) == FindIds(entries, wcprops, BasisTree(base_tree), p)

\* the entry at p is committed and unchanged
Normal(p) == Exists(entries, p) /\ entries[p].schedule = SCHEDULE_NORMAL

\* C6: while the basis revision stays the same, an entry with schedule
\* normal at the same committed revision and repository path resolves to the
\* same file id before and after any step (a call on other paths, a rebuild
\* of the inventory, a commit by another client), and resolving it raises
\* nothing
C6_IdentityStability ==
    [][ base_revnum' = base_revnum =>
           \A p \in AllPaths :
              (/\ Normal(p)
               /\ Normal(p)'
               /\ entries'[p].cmt_rev = entries[p].cmt_rev
               /\ entries'[p].url = entries[p].url) =>
                   /\ Identity(p).exc = "none"
                   /\ Identity(p)' = Identity(p) ]_vars

\* C6 witness: a file was renamed and another client replaced a file of the
\* branch, the basis is still revision 1, and an untouched path has
\* the id it has in revision 1
C6_Witness ==
    /\ base_revnum = 1
    /\ HeadRevnum > 1
    /\ result.op = "rename_one"
    /\ result.exc = "none"
    /\ Normal(<<"a">>)
    /\ Identity(<<"a">>).id = GenerateFileId(1, <<"a">>)
    /\ inventory[<<"a">>].id = GenerateFileId(1, <<"a">>)
    /\ repo[Len(repo)].id_map[<<"a">>][1] # GenerateFileId(1, <<"a">>)

-----------------------------------------------------------------------------
(* Properties of the pending merges *)

\* the list pending_merges() returns in the state
NativeMerges == PendingMerges(Start).ret

\* the features of the svk:merge property of the root / of the basis revision
SvkFeatures == ParseSvkFeatures(Value(wcprops[SVN_PROP_SVK_MERGE]))
CommittedFeatures == ParseSvkFeatures(GetSvkMerges)

\* the features of the pending merges that come from the Subversion mapping
NativeFeatures ==
    {RevisionIdToSvkFeature(NativeMerges[i]).val :
        i \in {j \in DOMAIN NativeMerges :
                  RevisionIdToSvkFeature(NativeMerges[j]).exc = "none"}}

AfterAddPendingMerge == result.op = "add_pending_merge" /\ result.exc = "none"

\* C7 as stated: after add_pending_merge calls the pending-merge list is as
\* long as the svk:merge feature set, or the feature set is one longer
C7_SameLengthOrOneMore ==
    AfterAddPendingMerge =>
       \/ Cardinality(SvkFeatures) = Len(NativeMerges)
       \/ Cardinality(SvkFeatures) = Len(NativeMerges) + 1

\* C7 amended: after add_pending_merge calls the svk:merge feature set is the
\* committed feature set of the basis revision together with the features of
\* the pending merges that are mapped revision ids, so it has at least the
\* committed features and at most as many more as the pending-merge list is
\* long
C7_FeaturesOfPendingMerges ==
    AfterAddPendingMerge =>
       /\ SvkFeatures = CommittedFeatures \cup NativeFeatures
       /\ Cardinality(SvkFeatures) >= Cardinality(CommittedFeatures)
       /\ Cardinality(SvkFeatures) <= Cardinality(CommittedFeatures) + Len(NativeMerges)

\* C7 witness: two merges are pending, one of them no mapped revision id, and
\* the feature set got one feature
C7_Witness ==
    /\ AfterAddPendingMerge
    /\ Len(NativeMerges) = 2
    /\ Cardinality(SvkFeatures \ CommittedFeatures) = 1
    /\ Cardinality(CommittedFeatures) = 1

-----------------------------------------------------------------------------
(* Properties of the id table *)

\* C8: a mapping written by _change_fileid_mapping, the empty one included,
\* is the mapping _get_new_file_ids reads back
C8_TableRoundTrip ==
    (result.op = "_change_fileid_mapping" /\ result.exc = "none") =>
        GetNewFileIds(wcprops) = [exc |-> "none", val |-> result.note]

\* C9: _get_new_file_ids never raises, and gives the empty mapping for a
\* table that is absent, empty or has a line that is no path-tab-id pair
C9_DecodeNeverRaises ==
    result.op = "_get_new_file_ids" =>
        /\ result.exc = "none"
        /\ (\/ wcprops[SVN_PROP_BZR_FILEIDS] = None
            \/ wcprops[SVN_PROP_BZR_FILEIDS] = <<>>
            \/ DecodeFileIds(wcprops[SVN_PROP_BZR_FILEIDS]).exc # "none")
              => result.ret = EmptyMap

-----------------------------------------------------------------------------
(* Properties of add and remove *)

\* the id table of the root as _get_new_file_ids reads it
Table == GetNewFileIds(wcprops).val

\* the last call was add() with a list of paths / with explicit ids too
AddReturned == result.op = "add" /\ result.exc = "none"
AddFiles == result.args[1]
AddIds == result.args[2]

\* C11: after remove(paths) no removed path has an entry in the id table
\* that _get_new_file_ids reads back, whatever the table was
C11_RemovedPathsLeaveTable ==
    (result.op = "remove" /\ result.exc = "none") =>
       \A i \in DOMAIN result.args : result.args[i] \notin DOMAIN Table

\* C12: after add(paths, ids) every path the call scheduled for addition is
\* mapped to the id of its index by the id table and has that id in the
\* rebuilt inventory
C12_ExplicitIdsByIndex ==
    (AddReturned /\ AddIds # NoList) =>
       \A i \in result.note.scheduled :
          /\ AddFiles[i] \in DOMAIN Table
          /\ Table[AddFiles[i]] = AddIds[i]
          /\ inventory[AddFiles[i]].id = AddIds[i]

\* a step that is a call of add()
AddStep == ops' = ops + 1 /\ result'.op = "add"

\* before the call the path was tracked / was not tracked and not on disk /
\* could not be added for another reason
AddTracked(f) == Exists(entries, f) /\ entries[f].schedule # SCHEDULE_DELETE
AddMissing(f) == ~AddTracked(f) /\ f \notin result'.note.on_disk
AddConflict(f) ==
    /\ ~AddTracked(f)
    /\ f \in result'.note.on_disk
    /\ entries[Dirname(f)].schedule = SCHEDULE_DELETE

\* how many paths the call handed to adm.add()
AddAttempts(events) ==
    Cardinality({j \in DOMAIN events : events[j][1] = "add"})

\* the errors of the working-copy library
ForeignErrors ==
    { "SubversionException:ERR_ENTRY_EXISTS",
      "SubversionException:ERR_WC_PATH_NOT_FOUND",
      "SubversionException:ERR_WC_SCHEDULE_CONFLICT",
      "SubversionException:ERR_WC_LOCKED" }

\* C13: add() skips a tracked path without an error and goes on with the
\* paths after it; the first path that is missing from the working copy
\* makes it raise NoSuchFile; another error of the library is raised as it is
C13_AddSkipsTrackedPaths ==
    [][AddStep =>
         LET files == result'.args[1]
             stops == {i \in DOMAIN files :
                          AddMissing(files[i]) \/ AddConflict(files[i])}
         IN  /\ result'.exc # "SubversionException:ERR_ENTRY_EXISTS"
             /\ stops = {} =>
                   /\ AddAttempts(result'.events) = Len(files)
                   /\ result'.exc \notin ForeignErrors \cup {"NoSuchFile"}
                   /\ result'.note.scheduled =
                         {i \in DOMAIN files : ~AddTracked(files[i])}
             /\ stops # {} =>
                   LET k == CHOOSE i \in stops : \A j \in stops : i <= j
                   IN  /\ AddAttempts(result'.events) = k
                       /\ result'.exc = IF AddMissing(files[k]) THEN "NoSuchFile"
                                        ELSE "SubversionException:ERR_WC_SCHEDULE_CONFLICT"
                       /\ result'.note.scheduled =
                             {i \in 1 .. (k - 1) : ~AddTracked(files[i])}
      ]_vars

\* C13 witness: add() of two paths skipped the first, which was tracked,
\* and scheduled the second
C13_Witness ==
    /\ AddReturned
    /\ Len(AddFiles) = 2
    /\ result.note.scheduled = {2}
    /\ entries[AddFiles[1]].schedule = SCHEDULE_NORMAL
    /\ entries[AddFiles[2]].schedule = SCHEDULE_ADD

\* C14: when add() raises NoSuchFile the paths it scheduled before stay
\* scheduled, with their table entries when ids were given, and the
\* inventory the tree holds is the one a rebuild gives
C14_FailedAddKeepsAppliedSubset ==
    (result.op = "add" /\ result.exc = "NoSuchFile") =>
       /\ \A i \in result.note.scheduled :
             /\ entries[AddFiles[i]].schedule \in {SCHEDULE_ADD, SCHEDULE_REPLACE}
             /\ AddIds # NoList => AddFiles[i] \in DOMAIN Table
       /\ \E r \in {ReadWorkingInventoryOf(entries, wcprops, base_tree)} :
             r.exc = "none" => inventory = r.inv

-----------------------------------------------------------------------------
(* Properties of the tree's caches and handles *)

\* the calls that change the structure of the tree or its basis
StructuralMutations ==
    { "add", "remove", "move", "rename_one", "update", "pull", "commit",
      "set_last_revision" }

\* C15: after add, remove, move, rename_one, update, pull, commit or
\* set_last_revision returns, the cached basis tree is unset
C15_BasisTreeUnsetAfterMutation ==
    (result.op \in StructuralMutations /\ result.exc = "none") =>
       base_tree = None

\* C16: when a call has returned or raised, no working-copy handle it
\* opened is still open
C16_HandlesClosed == open_handles = <<>>

-----------------------------------------------------------------------------
(* Properties of the inventory *)

\* the paths that have a node in the inventory the tree holds
Nodes == {p \in AllPaths : inventory[p].id # None}

\* C17: the inventory read_working_inventory produced has exactly one root,
\* the parent of every other node is a node of it, and no two nodes have
\* the same file id
C17_InventoryWellFormed ==
    /\ Cardinality({p \in Nodes : inventory[p].parent_id = None}) = 1
    /\ \A p \in Nodes :
          inventory[p].parent_id # None =>
             \E q \in Nodes : inventory[q].id = inventory[p].parent_id
    /\ \A p \in Nodes, q \in Nodes :
          p # q => inventory[p].id # inventory[q].id

\* C17 witness: a rebuild after add() with explicit ids produced an
\* inventory of six nodes, two of them with the ids given
C17_Witness ==
    /\ AddReturned
    /\ AddIds # NoList
    /\ Cardinality(result.note.scheduled) = 2
    /\ Cardinality(Nodes) = 6
    /\ \A i \in result.note.scheduled : inventory[AddFiles[i]].id = AddIds[i]

\* C19: a path added without an explicit id, without copy-from information
\* and without an entry in the id table is in the rebuilt inventory under
\* its parent directory, its file id is "NEW-" and the escaped path in the
\* repository, and it has no revision
C19_AddedPathGetsNewId ==
    (AddReturned /\ AddIds = NoList) =>
       \A i \in result.note.scheduled :
          \E f \in {AddFiles[i]} :
             (/\ entries[f].copyfrom_url = None
              /\ PathJoin(branch_path, f) \notin DOMAIN Table) =>
                /\ inventory[f].id =
                      <<"NEW-">> \o EscapeSvnPath(PathJoin(branch_path, f))
                /\ inventory[f].revision = None
                /\ inventory[Dirname(f)].id # None
                /\ inventory[f].parent_id = inventory[Dirname(f)].id

\* C19 witness: d/b was added without an id on the branch trunk and the
\* inventory has it under d
C19_Witness ==
    /\ AddReturned
    /\ AddIds = NoList
    /\ branch_path = <<"trunk">>
    /\ \E i \in result.note.scheduled : AddFiles[i] = <<"d", SLASH, "b">>
    /\ inventory[<<"d", SLASH, "b">>].id = <<"NEW-", "trunk", "%2F", "d", "%2F", "b">>
    /\ inventory[<<"d", SLASH, "b">>].parent_id = inventory[<<"d">>].id

-----------------------------------------------------------------------------
(* Properties of opening and updating a tree *)

\* C18: a tree opened on a working copy without a revision (max_rev < 0)
\* has an inventory of a single root node, no basis revision id, and was
\* opened without the working-copy entries being read into an inventory
C18_EmptyWorkingCopy ==
    (result.op = "__init__" /\ base_revnum < 0) =>
       /\ Nodes = {ROOT}
       /\ inventory[ROOT].parent_id = None
       /\ base_revid = None
       /\ \A j \in DOMAIN result.events :
             result.events[j][1] # "read_working_inventory"

\* C18 witness: a tree was opened on a working copy without a revision in
\* which b is scheduled for addition
C18_Witness ==
    /\ result.op = "__init__"
    /\ base_revnum < 0
    /\ entries[<<"b">>].schedule = SCHEDULE_ADD
    /\ Nodes = {ROOT}

\* a step that is a call of update() that returns
UpdateStep ==
    ops' = ops + 1 /\ result'.op = "update" /\ result'.exc = "none"

\* C20: update(revnum) sets the basis revision number to revnum, or to the
\* latest revision number when none is given, and the basis revision id to
\* the revision id of that number, rebuilds the inventory and returns the
\* new basis revision number minus the old one
C20_UpdateMovesBasis ==
    [][UpdateStep =>
         \E revnum \in {NoRevnum} \cup (0 .. MaxRev) :
            /\ result'.args = <<ToString(revnum)>>
            /\ base_revnum' = IF revnum = NoRevnum THEN HeadRevnum ELSE revnum
            /\ base_revid' = GenerateRevisionId(base_revnum')
            /\ inventory' = (ReadWorkingInventoryOf(entries, wcprops, None).inv)'
            /\ result'.ret = <<ToString(base_revnum' - base_revnum)>>
      ]_vars

\* C20 witness: update went one revision back
C20_Witness ==
    /\ result.op = "update"
    /\ result.exc = "none"
    /\ result.note = 2
    /\ base_revnum = 1
    /\ result.ret = <<"-1">>

-----------------------------------------------------------------------------
(* Properties of the id table under move and rename_one *)

\* the copy-source search alone gives the entry at p the identity of the
\* path it was copied from (the branch of find_ids that asks find_copies)
CopySearchResolves(p) ==
    /\ Exists(entries, p)
    /\ entries[p].schedule \in {SCHEDULE_ADD, SCHEDULE_REPLACE}
    /\ entries[p].copyfrom_url # None
    /\ entries[p].copyfrom_url # <<>>
    /\ FindCopies(entries, entries[p].copyfrom_url) = <<Strip(entries[p].url, SLASH)>>

\* C21: after a successful rename_one or move of a committed path to a free
\* target, the id table read by _get_new_file_ids has no entry for the old
\* path, and it has an entry for the new path only if the copy-source
\* search does not resolve the new path by itself
C21_TableEntryOnlyWhenSearchFails ==
    [][ (MoveStep /\ ~Exists(entries, MoveTarget) /\ result'.exc = "none") =>
           \E t \in {MoveTarget} :
              /\ result'.args[1] \notin DOMAIN Table'
              /\ (CopySearchResolves(t)' => t \notin DOMAIN Table')
              /\ (~CopySearchResolves(t)' => t \in DOMAIN Table') ]_vars

\* C22: the id table read by _get_new_file_ids holds entries only for paths
\* of the working copy that are scheduled add or replace; a path with
\* schedule normal (or with no entry at all) is never in it
C22_TableOnlyForScheduledPaths ==
    \A p \in DOMAIN Table :
        /\ p \in AllPaths
        /\ entries[p].schedule \in {SCHEDULE_ADD, SCHEDULE_REPLACE}

-----------------------------------------------------------------------------
(* Properties of the working-copy handles of rename_one, move and commit *)

\* the write handles a call holds after the first n of its events
HeldAfter(events, n, dir) ==
    Cardinality({i \in 1..n : events[i] = <<"open-write", dir>>})
        - Cardinality({i \in 1..n : events[i] = <<"close", dir>>})

\* C23: rename_one never asks for a write handle on a directory it still
\* holds a write handle on, and it holds no handle at all when it turns to
\* the id table (the two requests for the root that follow the copy and the
\* delete)
C23_RenameNeverLocksHeldDirectory ==
    result.op = "rename_one" =>
        \A i \in DOMAIN result.events :
            /\ result.events[i][1] # "open-refused"
            /\ (/\ result.events[i][1] = "open-write"
                /\ \E j \in 1..(i - 1) : result.events[j][1] = "delete") =>
                    \A dir \in DirPaths : HeldAfter(result.events, i - 1, dir) = 0

\* the directory the last rename_one or move took its source from, and the
\* directory it put the copy in
SourceDir == Dirname(result.args[1])
DestinationDir ==
    IF result.op = "rename_one" THEN Dirname(result.args[2]) ELSE result.args[2]

\* C24: a rename_one or move between two different directories that gets to
\* deleting the source has asked for the write lock of the destination
\* directory first and for the write lock of the directory that contains
\* the source after it
C24_DestinationBeforeSource ==
    (/\ result.op \in {"rename_one", "move"}
     /\ SourceDir # DestinationDir
     /\ \E k \in DOMAIN result.events : result.events[k][1] = "delete") =>
        \E i, j \in DOMAIN result.events :
            /\ i < j
            /\ result.events[i] = <<"open-write", DestinationDir>>
            /\ result.events[j] = <<"open-write", SourceDir>>
            /\ \A k \in 1..(i - 1) : result.events[k] # <<"open-write", SourceDir>>
            /\ \E k \in DOMAIN result.events :
                  j < k /\ result.events[k][1] = "delete"

\* the caller p holds the write lock of the directory it renames to and has
\* yet to take the write lock of the directory it renames from
HoldsOneNeedsOther(p) ==
    /\ renames[p].pc = "open_from"
    /\ Dirname(renames[p].from_rel) # Dirname(renames[p].to_rel)
    /\ renames[p].held = << Dirname(renames[p].to_rel) >>

\* C25: two concurrent calls of rename_one in opposite directions between
\* two different directories are never in the state where each holds the
\* write lock of one directory and has yet to take the lock the other holds
C25_NoLockOrderInversion ==
    \A p, q \in DOMAIN renames :
        ~ (/\ p # q
           /\ HoldsOneNeedsOther(p)
           /\ HoldsOneNeedsOther(q)
           /\ Dirname(renames[p].from_rel) = Dirname(renames[q].to_rel)
           /\ Dirname(renames[q].from_rel) = Dirname(renames[p].to_rel))

-----------------------------------------------------------------------------
(* Properties of the inventory rebuild *)

\* the committed path a is scheduled for deletion and had the id it has in
\* the basis revision
DeletedSource(a) ==
    /\ Exists(entries, a)
    /\ entries[a].schedule = SCHEDULE_DELETE
    /\ repo[base_revnum + 1].id_map[a] # None

\* the copies of a that are still there
SurvivingCopies(a) == {p \in FilePaths : CopyOf(p, a)}

\* C26: the copy-source search looks at the entries of every directory: with
\* no id recorded in the id table, the sole surviving copy of a deleted
\* source resolves to the source's file id wherever it lies, and when two
\* or more copies survive (in the root or in a subdirectory) none of them
\* resolves to it
C26_CopySearchCoversSubdirectories ==
    Table = EmptyMap =>
       \A a \in FilePaths :
          DeletedSource(a) =>
             \A c \in SurvivingCopies(a) :
                (Identity(c).id = repo[base_revnum + 1].id_map[a][1])
                    <=> (SurvivingCopies(a) = {c})

\* the entry at p or a directory above it is scheduled for deletion
UnderDeletion(p) ==
    \E q \in AllPaths :
        /\ q = p \/ (p # ROOT /\ q = Dirname(p))
        /\ Exists(entries, q)
        /\ entries[q].schedule = SCHEDULE_DELETE

\* C27: in the inventory a successful rebuild produced, an entry scheduled
\* for deletion resolves to no id and has no node, an entry below a
\* directory scheduled for deletion has no node whatever its own schedule,
\* and every other entry of the working copy has a node with the id it
\* resolves to
C27_DeletedEntriesOmitted ==
    Rebuilt =>
       \A p \in AllPaths :
          Exists(entries, p) =>
             /\ entries[p].schedule = SCHEDULE_DELETE => Identity(p).id = None
             /\ UnderDeletion(p) => inventory[p].id = None
             /\ ~UnderDeletion(p) =>
                   /\ inventory[p].id # None
                   /\ inventory[p].id = Identity(p).id

\* C27 witness: remove(["d"]) scheduled the directory d and the file in it
\* for deletion; the rebuilt inventory has the root and a, and neither d nor
\* d/a
C27_Witness ==
    /\ result.op = "remove"
    /\ result.exc = "none"
    /\ entries[<<"d">>].schedule = SCHEDULE_DELETE
    /\ entries[<<"d", SLASH, "a">>].schedule = SCHEDULE_DELETE
    /\ inventory[<<"d">>].id = None
    /\ inventory[<<"d", SLASH, "a">>].id = None
    /\ inventory[<<"a">>].id # None
    /\ inventory[ROOT].id # None

\* the entry at p has a schedule find_ids does not know
UnknownSchedule(p) ==
    /\ Exists(entries, p)
    /\ entries[p].schedule \notin {SCHEDULE_NORMAL, SCHEDULE_ADD,
                                    SCHEDULE_DELETE, SCHEDULE_REPLACE}

\* add_dir_to_inv gets to the entry at p: the directories above it have ids
Walked(p) ==
    /\ Exists(entries, p)
    /\ \A q \in {ROOT, Dirname(p)} \ {p} :
          Identity(q).exc = "none" /\ Identity(q).id # None

\* C28: find_ids raises AssertionError for an entry whose schedule is none
\* of normal, add, delete, replace and gives it no id; a call of
\* read_working_inventory that gets to such an entry raises it, keeps the
\* inventory the tree had and leaves no handle open
C28_UnknownScheduleFailsRebuild ==
    [][ (/\ ops' = ops + 1
         /\ result'.op = "read_working_inventory"
         /\ \E p \in AllPaths : UnknownSchedule(p) /\ Walked(p)) =>
            /\ \A p \in AllPaths :
                  UnknownSchedule(p) =>
                     Identity(p).exc = "AssertionError" /\ Identity(p).id = None
            /\ result'.exc = "AssertionError"
            /\ inventory' = inventory
            /\ open_handles' = <<>>
            /\ result'.events = << <<"open-read", ROOT>>, <<"close", ROOT>> >> ]_vars

\* C28 witness: d/a was reported with an unknown schedule after b was added,
\* the rebuild failed, and the tree still has the inventory with a, b, d/a
C28_Witness ==
    /\ result.op = "read_working_inventory"
    /\ result.exc = "AssertionError"
    /\ UnknownSchedule(<<"d", SLASH, "a">>)
    /\ open_handles = <<>>
    /\ inventory[<<"d", SLASH, "a">>].id # None
    /\ inventory[<<"b">>].id # None
    /\ inventory[<<"a">>].id # None

-----------------------------------------------------------------------------
(* Properties of the staging and of the call of client.commit() *)

\* what commit() does to the root before it calls client.commit()
StageEvents ==
    << <<"open-write", ROOT>>, <<"prop_set", <<SVN_PROP_BZR_REVISION_ID>> >>,
       <<"prop_set", <<SVN_PROP_BZR_REVISION_INFO>> >>, <<"close", ROOT>> >>

\* the calls of client.commit() among the events of a call
ClientCommits(events) == {k \in DOMAIN events : events[k][1] = "commit"}

\* the line commit() appends to the revision ids for the revision id rev_id
StagedExtra(rev_id) ==
    IF rev_id = None THEN <<>>
    ELSE <<ToString(BranchRevno + 1), " ">> \o rev_id \o <<NL>>

\* C29: a call of commit() that is not refused writes the revision ids and
\* the revision info on the root and closes the handle it staged them
\* through, and only then calls client.commit(); the revision ids it writes
\* are those the repository has at the basis revision and the line of this
\* call, whatever the root carried from an earlier call
C29_StagedBeforeClientCommit ==
    [][ CommitReached =>
           /\ Len(result'.events) > 4
           /\ SubSeq(result'.events, 1, 4) = StageEvents
           /\ result'.events[5][1] = "commit"
           /\ \A k \in ClientCommits(result'.events) : k > 4
           /\ result'.exc = "none" =>
                 /\ wcprops'[SVN_PROP_BZR_REVISION_ID]
                       = BranchProp(base_revnum, SVN_PROP_BZR_REVISION_ID)
                            \o StagedExtra(result'.args.rev_id)
                 /\ wcprops'[SVN_PROP_BZR_REVISION_INFO]
                       = RevisionMetadata(result'.args.timestamp, result'.note) ]_vars

\* C29 witness: the second of two commits of this tree, the first of the
\* file b and the second of the whole tree under the revision id rev-x; the
\* root carries the revision ids the repository had at revision 2 and the
\* line of rev-x
C29_Witness ==
    /\ ops = 2
    /\ result.op = "commit"
    /\ result.exc = "none"
    /\ result.args.rev_id = <<"rev-x">>
    /\ SubSeq(result.events, 1, 4) = StageEvents
    /\ HeadRevnum = 3
    /\ entries[<<"b">>].cmt_rev = 2
    /\ entries[ROOT].cmt_rev = 3
    /\ wcprops[SVN_PROP_BZR_REVISION_ID]
          = BranchProp(2, SVN_PROP_BZR_REVISION_ID) \o <<"3", " ", "rev-x", NL>>

\* C30: a call of commit() calls client.commit() once when it is not
\* refused and never otherwise; when client.commit() fails with the
\* out-of-date code the call raises OutOfDateTree, with any other code it
\* raises the error it got, and the repository and the basis stay as they
\* were
C30_ClientCommitCalledOnce ==
    [][ CommitStep =>
           /\ Cardinality(ClientCommits(result'.events))
                 = IF CommitReached THEN 1 ELSE 0
           /\ (CommitReached /\ result'.args.outcome # "ok") =>
                 /\ result'.exc =
                       IF result'.args.outcome = "ERR_FS_TXN_OUT_OF_DATE"
                       THEN "OutOfDateTree"
                       ELSE "SubversionException:" \o result'.args.outcome
                 /\ \A k \in ClientCommits(result'.events) :
                       result'.events[k][2] = <<result'.args.outcome>>
                 /\ UNCHANGED <<repo, base_revnum, base_revid>> ]_vars

\* C30 witness: a commit that failed as out of date after another that
\* failed with a conflict, each with one call of client.commit()
C30_Witness ==
    /\ ops = 2
    /\ result.op = "commit"
    /\ result.exc = "OutOfDateTree"
    /\ Cardinality(ClientCommits(result.events)) = 1
    /\ HeadRevnum = 1
    /\ base_revnum = 1

-----------------------------------------------------------------------------
(* Properties of set_last_revision and pull *)

\* C31: set_last_revision(revid) with revid absent or the null revision sets
\* base_revid to revid, base_revnum to 0 and base_tree to None, raises
\* nothing, opens no working-copy handle and leaves the entries, the root's
\* properties, the inventory and the repository as they were
C31_NullRevisionResetsBasisOnly ==
    [][ (/\ ops' = ops + 1
         /\ result'.op = "set_last_revision"
         /\ result'.args[1] \in {None, NULL_REVISION}) =>
            /\ result'.exc = "none"
            /\ base_revid' = result'.args[1]
            /\ base_revnum' = 0
            /\ base_tree' = None
            /\ result'.events = <<>>
            /\ UNCHANGED <<entries, wcprops, inventory, open_handles, repo,
                           branch_path>> ]_vars

\* C31 witness: set_last_revision(NULL_REVISION) on a checkout of revision 1:
\* the basis is revision 0, and a is still in the inventory with its stamp
C31_Witness ==
    /\ result.op = "set_last_revision"
    /\ result.args = << NULL_REVISION >>
    /\ result.exc = "none"
    /\ base_revid = NULL_REVISION
    /\ base_revnum = 0
    /\ base_tree = None
    /\ inventory[<<"a">>].id = GenerateFileId(1, <<"a">>)
    /\ entries[<<"a">>].cmt_rev = 1

\* C32: pull returns; base_revnum is then the number of the branch's last
\* revision, base_revid is generate_revision_id of it, and the revision id
\* of the result is base_revid
C32_PullMovesBasisToStopRevision ==
    [][ (ops' = ops + 1 /\ result'.op = "pull") =>
           /\ result'.exc = "none"
           /\ base_revnum' = HeadRevnum
           /\ base_revid' = GenerateRevisionId(base_revnum')
           /\ result'.ret = base_revid'
           /\ inventory' = ReadWorkingInventoryOf(entries', wcprops', None).inv ]_vars

-----------------------------------------------------------------------------
(* Properties of set_pending_merges, add_pending_merge and pending_merges *)

\* the svk:merge features of the revision ids of merges that come from the
\* Subversion mapping
MappedFeatures(merges) ==
    {<<"uuid:/branch:", merges[i][2]>> :
        i \in {j \in DOMAIN merges : merges[j][1] = "svn-v3:"}}

\* the step is a call of set_pending_merges
SetPendingMergesStep == ops' = ops + 1 /\ result'.op = "set_pending_merges"

\* C33: set_pending_merges(m) raises nothing, and svk:merge is afterwards
\* the features the repository has at the basis revision together with the
\* feature of every entry of m that is a mapped revision id; what the
\* property held before the call does not matter
C33_SvkMergeFromBasisAndArgument ==
    [][ SetPendingMergesStep =>
           /\ result'.exc = "none"
           /\ ParseSvkFeatures(Value(wcprops'[SVN_PROP_SVK_MERGE]))
                 = ParseSvkFeatures(BranchProp(base_revnum, SVN_PROP_SVK_MERGE))
                      \cup MappedFeatures(result'.args)
           /\ wcprops'[SVN_PROP_SVK_MERGE]
                 = SerializeSvkFeatures(
                      ParseSvkFeatures(BranchProp(base_revnum, SVN_PROP_SVK_MERGE))
                         \cup MappedFeatures(result'.args)) ]_vars

\* C33 witness: the second of two calls, with one mapped and one other
\* revision id; the feature of the first call is gone, the committed one
\* and the new one are there
C33_Witness ==
    /\ ops = 2
    /\ result.op = "set_pending_merges"
    /\ result.exc = "none"
    /\ result.args = << <<"native-1">>, <<"svn-v3:", "8">> >>
    /\ SvkFeatures = { <<"uuid:/branch:", "5">>, <<"uuid:/branch:", "8">> }
    /\ wcprops[SVN_PROP_BZR_ANCESTRY]
          = <<"svn-v3:", "5", NL, "native-1", TAB, "svn-v3:", "8", NL>>

\* the step is a call of add_pending_merge that returned
AddPendingMergeStep ==
    /\ ops' = ops + 1
    /\ result'.op = "add_pending_merge"
    /\ result'.exc = "none"

\* C34: after set_pending_merges(m) pending_merges() raises nothing and
\* returns m, in the order given (the empty list for the empty list), also
\* when merges were pending before; after add_pending_merge(r)
\* pending_merges() returns what it returned before the call with r at the
\* end
C34_PendingMergesRoundTrip ==
    [][ /\ SetPendingMergesStep =>
              /\ PendingMerges(Start)'.c.exc = "none"
              /\ NativeMerges' = result'.args
        /\ AddPendingMergeStep =>
              /\ PendingMerges(Start)'.c.exc = "none"
              /\ NativeMerges' = Append(NativeMerges, result'.args) ]_vars

\* C34 witness: r was added to a pending merge on a branch with committed
\* ancestry, and pending_merges() returns the two in order
C34_Witness ==
    /\ ops = 2
    /\ result.op = "add_pending_merge"
    /\ result.exc = "none"
    /\ result.args = <<"native-1">>
    /\ GetBzrMerges = <<"svn-v3:", "5", NL>>
    /\ NativeMerges = << <<"svn-v3:", "7">>, <<"native-1">> >>

(***************************************************************************)
(* Properties of the ancestry property and of the basis pointer            *)
(***************************************************************************)

\* the lines of the ancestry committed at the basis revision, and of the
\* ancestry on the root of the working copy
CommittedLines == SplitLines(BranchProp(base_revnum, SVN_PROP_BZR_ANCESTRY))
WorkingLines == SplitLines(Value(wcprops[SVN_PROP_BZR_ANCESTRY]))

\* C35: whatever set_pending_merges, add_pending_merge and commits that
\* succeed or fail have done, the ancestry on the root has as many lines as
\* the ancestry committed at the basis revision or one more, and
\* pending_merges() does not fail its assertion
C35_AncestryAtMostOneLineAhead ==
    /\ \/ Len(WorkingLines) = Len(CommittedLines)
       \/ Len(WorkingLines) = Len(CommittedLines) + 1
    /\ PendingMerges(Start).c.exc # "AssertionError"

\* C35 witness: merges were set and committed with the whole tree; the
\* committed ancestry has grown by their line and the root has the same
C35_Witness ==
    /\ ops = 2
    /\ result.op = "commit"
    /\ result.exc = "none"
    /\ base_revnum = 2
    /\ Len(CommittedLines) = 2
    /\ Len(WorkingLines) = 2
    /\ NativeMerges = <<>>

\* the step is an update, a pull or a commit that returned
BasisMovingStep ==
    /\ ops' = ops + 1
    /\ result'.op \in {"update", "pull", "commit"}
    /\ result'.exc = "none"

\* C36: a tree opened on a working copy with a revision has the revision id
\* of its basis revision number, and so has the tree after every update,
\* pull and commit that returns; the basis revision id is absent at
\* construction only when the working copy has no revision, and becomes
\* absent only by set_last_revision with an absent id
C36_BasisPointerConsistent ==
    /\ (base_revnum >= 0 => base_revid = <<"svn-v3:", ToString(base_revnum)>>)
    /\ (base_revnum < 0 <=> base_revid = None)
    /\ [][ /\ BasisMovingStep =>
                 base_revid' = <<"svn-v3:", ToString(base_revnum')>>
           /\ (base_revid' = None /\ base_revid # None) =>
                 /\ result'.op = "set_last_revision"
                 /\ result'.args = <<None>>
                 /\ result'.exc = "none" ]_vars

\* C36 witness: the second call was a commit that returned; the basis is the
\* revision the commit made, and the commit returned its revision id
C36_Witness ==
    /\ ops = 2
    /\ result.op = "commit"
    /\ result.exc = "none"
    /\ base_revnum = HeadRevnum
    /\ base_revnum > 1
    /\ base_revid = <<"svn-v3:", ToString(base_revnum)>>
    /\ result.ret = base_revid

\* the calls of client.commit() in the events of a call that returned ok
ReturnedCommits(events) ==
    {k \in DOMAIN events : events[k][1] = "commit" /\ events[k][2] = <<"ok">>}

\* C37: a commit that raises, whatever it raises, leaves the basis revision
\* id, the basis revision number and the cached basis tree as they were;
\* a commit changes the basis only when client.commit() was called and
\* returned
C37_BasisKeptWhenCommitRaises ==
    [][ CommitStep =>
           /\ result'.exc # "none" =>
                 UNCHANGED <<base_revid, base_revnum, base_tree>>
           /\ (base_revnum' # base_revnum \/ base_revid' # base_revid) =>
                 /\ result'.exc = "none"
                 /\ ReturnedCommits(result'.events) # {} ]_vars

\* C37 witness: after a commit that moved the basis to revision 2, a commit
\* was refused by the repository as out of date and the basis is still
\* revision 2
C37_Witness ==
    /\ ops = 2
    /\ result.op = "commit"
    /\ result.exc = "OutOfDateTree"
    /\ HeadRevnum = 2
    /\ base_revnum = 2
    /\ base_revid = GenerateRevisionId(2)

-----------------------------------------------------------------------------
(* Properties of the lazy functions of the plugin module *)

\* the calls of each function in lazy_calls, and the calls of
\* lazy_register_optimizers that returned
CheckCalls ==
    {k \in DOMAIN lazy_calls : lazy_calls[k].fn = "lazy_check_versions"}
RegisterCalls ==
    {k \in DOMAIN lazy_calls : lazy_calls[k].fn = "lazy_register_optimizers"}
CompletedRegisterCalls == {k \in RegisterCalls : lazy_calls[k].exc = "none"}

\* C38: in any sequence of calls the first call of lazy_check_versions runs
\* the version check and no later call does: every later call returns
\* without checking, warning or raising, also when the first check raised;
\* lazy_register_optimizers registers the two optimisers in its first call
\* that returns and registers nothing in any other call
C38_LazyFunctionsActOnce ==
    /\ \A k \in CheckCalls :
          /\ lazy_calls[k].checked <=> (\A j \in CheckCalls : k <= j)
          /\ (\E j \in CheckCalls : j < k) =>
                /\ lazy_calls[k].exc = "none"
                /\ ~lazy_calls[k].warned
    /\ \A k \in RegisterCalls :
          lazy_calls[k].registered =
             IF k \in CompletedRegisterCalls
                /\ \A j \in CompletedRegisterCalls : k <= j
             THEN <<"InterFromSvnRepository", "InterToSvnRepository">>
             ELSE <<>>
    /\ optimisers =
          IF CompletedRegisterCalls = {} THEN <<>>
          ELSE <<"InterFromSvnRepository", "InterToSvnRepository">>

\* C38 witness: under a bzrlib that is too old the first check raised and
\* the second call of lazy_check_versions returned without checking; the
\* optimisers were registered by the call that came after a failed import
C38_Witness ==
    /\ Len(lazy_calls) = 4
    /\ lazy_calls[1].fn = "lazy_check_versions"
    /\ lazy_calls[1].exc = "BzrError"
    /\ lazy_calls[1].checked
    /\ lazy_calls[2].fn = "lazy_register_optimizers"
    /\ lazy_calls[2].exc = "ImportError"
    /\ lazy_calls[3].fn = "lazy_check_versions"
    /\ lazy_calls[3].exc = "none"
    /\ ~lazy_calls[3].checked
    /\ lazy_calls[4].fn = "lazy_register_optimizers"
    /\ lazy_calls[4].exc = "none"
    /\ optimisers = <<"InterFromSvnRepository", "InterToSvnRepository">>

=============================================================================
